---- MODULE Spec2Model ----
(***************************************************************************)
(* Model of the FAQsimple API client (src/src/faqsimple-api.ts): the       *)
(* constructor, makeRequest, getCached, the three read operations,         *)
(* searchFAQs, calculateRelevance, getRateLimitStatus and clearCache, and   *)
(* of the tool handler of the server (src/src/index.ts) that calls it.     *)
(*                                                                         *)
(* Text is modelled as a sequence of one-character strings, so that the    *)
(* string functions the client uses (toLowerCase, trim, split(/\s+/),      *)
(* includes, startsWith) are computed character by character.              *)
(***************************************************************************)
EXTENDS Integers, Sequences, FiniteSets, TLC

(***************************************************************************)
(* Text functions (the methods of String.prototype the client calls)       *)
(***************************************************************************)

\* characters matched by the regular expression class \s and removed by trim
IsSpace(c) == c \in {" ", "\t", "\n"}

UpperCase == <<"A","B","C","D","E","F","G","H","I","J","K","L","M",
               "N","O","P","Q","R","S","T","U","V","W","X","Y","Z">>
LowerCase == <<"a","b","c","d","e","f","g","h","i","j","k","l","m",
               "n","o","p","q","r","s","t","u","v","w","x","y","z">>

toLowerCaseChar(c) ==
    IF \E i \in 1..Len(UpperCase) : UpperCase[i] = c
    THEN LowerCase[CHOOSE i \in 1..Len(UpperCase) : UpperCase[i] = c]
    ELSE c

\* String.prototype.toLowerCase
toLowerCase(s) == [i \in 1..Len(s) |-> toLowerCaseChar(s[i])]

\* String.prototype.includes
includes(s, sub) ==
    \E i \in 0..(Len(s) - Len(sub)) : SubSeq(s, i + 1, i + Len(sub)) = sub

\* String.prototype.startsWith
startsWith(s, prefix) ==
    /\ Len(prefix) <= Len(s)
    /\ SubSeq(s, 1, Len(prefix)) = prefix

RECURSIVE trimStart(_)
trimStart(s) ==
    IF s # <<>> /\ IsSpace(Head(s)) THEN trimStart(Tail(s)) ELSE s

RECURSIVE trimEnd(_)
trimEnd(s) ==
    IF s # <<>> /\ IsSpace(s[Len(s)])
    THEN trimEnd(SubSeq(s, 1, Len(s) - 1))
    ELSE s

\* String.prototype.trim
trim(s) == trimEnd(trimStart(s))

\* String.prototype.split(/\s+/): every maximal run of whitespace is one
\* separator; a separator at the start or at the end of the string leaves
\* an empty string on that side, and the empty string splits into <<"">>.
RECURSIVE splitFrom(_, _, _, _)
splitFrom(s, i, cur, acc) ==
    IF i > Len(s) THEN Append(acc, cur)
    ELSE IF IsSpace(s[i])
         THEN IF i > 1 /\ IsSpace(s[i - 1])
              THEN splitFrom(s, i + 1, cur, acc)
              ELSE splitFrom(s, i + 1, <<>>, Append(acc, cur))
         ELSE splitFrom(s, i + 1, Append(cur, s[i]), acc)

splitWhitespace(s) == splitFrom(s, 1, <<>>, <<>>)

(***************************************************************************)
(* calculateRelevance                                                      *)
(*                                                                         *)
(* The score (questionMatches / n) * 0.7 + (answerMatches / n) * 0.3 is    *)
(* kept as the exact fraction num / den with num = 7 * questionMatches +   *)
(* 3 * answerMatches and den = 10 * n.  For n <= 7 the IEEE double the     *)
(* program computes orders and equates scores exactly as these fractions   *)
(* do, (n / n) * 0.7 + (n / n) * 0.3 is the double 1.0 and (n / n) * 0.7   *)
(* is the double 0.7.                                                      *)
(***************************************************************************)

\* [mutant] some(word => word === queryWord): whole words only
someWordEquals(words, queryWord) ==
    \E j \in 1..Len(words) : words[j] = queryWord

\* Array.prototype.some(word => word.includes(queryWord))
someWordIncludes(words, queryWord) ==
    \E j \in 1..Len(words) : includes(words[j], queryWord)

\* the forEach loop: number of query words found in some word of `words`
countMatches(queryWords, words) ==
    Cardinality({k \in 1..Len(queryWords) : someWordIncludes(words, queryWords[k])})

questionWeight == 7
answerWeight == 3

\* [mutant] the two weights exchanged
calculateRelevanceAnswerWeighted(query, questionText, answerText) ==
    LET queryWords    == splitWhitespace(toLowerCase(query))
        questionWords == splitWhitespace(toLowerCase(questionText))
        answerWords   == splitWhitespace(toLowerCase(answerText))
        questionMatches == countMatches(queryWords, questionWords)
        answerMatches   == countMatches(queryWords, answerWords)
    IN  [num |-> answerWeight * questionMatches + questionWeight * answerMatches,
         den |-> (questionWeight + answerWeight) * Len(queryWords)]

calculateRelevance(query, questionText, answerText) ==
    LET queryWords    == splitWhitespace(toLowerCase(query))
        questionWords == splitWhitespace(toLowerCase(questionText))
        answerWords   == splitWhitespace(toLowerCase(answerText))
        questionMatches == countMatches(queryWords, questionWords)
        answerMatches   == countMatches(queryWords, answerWords)
    IN  [num |-> questionWeight * questionMatches + answerWeight * answerMatches,
         den |-> (questionWeight + answerWeight) * Len(queryWords)]

\* comparison of two scores as the numbers they stand for
RelLess(x, y) == x.num * y.den < y.num * x.den
RelEq(x, y)   == x.num * y.den = y.num * x.den
RelLeq(x, y)  == x.num * y.den <= y.num * x.den


(***************************************************************************)
(* JavaScript values                                                       *)
(***************************************************************************)

\* a JavaScript number, NaN, null or undefined.  Huge stands for the
\* integers of HugeDigits or more decimal digits, all of them above
\* 8.64e12, the largest number of seconds a Date can hold
Num(n)    == [t |-> "number", v |-> n]
Huge      == [t |-> "huge", v |-> 0]
NaN       == [t |-> "NaN", v |-> 0]
Null      == [t |-> "null", v |-> 0]
Undefined == [t |-> "undefined", v |-> 0]

\* ToBoolean of such a value: 0, NaN, null and undefined are falsy
truthy(x) == (x.t = "number" /\ x.v # 0) \/ x.t = "huge"

\* new Date(ms) and the Invalid Date that an out-of-range number gives
Date(ms) == [t |-> "date", v |-> ms]
InvalidDate == [t |-> "invalid date", v |-> 0]

\* new Date(seconds * 1000) for a number of seconds
dateOfSeconds(x) == IF x.t = "huge" THEN InvalidDate ELSE Date(x.v * 1000)

Digits == <<"0","1","2","3","4","5","6","7","8","9">>
IsDigit(c) == \E d \in 1..Len(Digits) : Digits[d] = c
digitValue(c) == (CHOOSE d \in 1..Len(Digits) : Digits[d] = c) - 1

RECURSIVE parseDigits(_, _, _)
parseDigits(s, i, acc) ==
    IF i <= Len(s) /\ IsDigit(s[i])
    THEN parseDigits(s, i + 1, 10 * acc + digitValue(s[i]))
    ELSE acc

\* the number of digits the text starts with, from position i on
RECURSIVE digitRun(_, _)
digitRun(s, i) ==
    IF i <= Len(s) /\ IsDigit(s[i]) THEN 1 + digitRun(s, i + 1) ELSE 0

HugeDigits == 14

\* parseInt(string): leading whitespace is skipped, an optional sign and the
\* longest prefix of decimal digits are read; no digit gives NaN.  The
\* texts read here have runs of at most 9 digits, or of HugeDigits or more
\* with a first digit other than 0.
parseInt(str) ==
    LET s    == trimStart(str)
        neg  == s # <<>> /\ Head(s) = "-"
        body == IF s # <<>> /\ Head(s) \in {"-", "+"} THEN Tail(s) ELSE s
    IN  IF body = <<>> \/ ~IsDigit(Head(body)) THEN NaN
        ELSE IF digitRun(body, 1) >= HugeDigits /\ Head(body) # "0" /\ ~neg
        THEN Huge
        ELSE IF neg THEN Num(0 - parseDigits(body, 1, 0))
        ELSE Num(parseDigits(body, 1, 0))

(***************************************************************************)
(* Errors: new Error(message).  The message is a fixed text followed by a  *)
(* variable part `detail' (text taken from the response or from the        *)
(* underlying error); status and at are the numbers the message prints.    *)
(***************************************************************************)
NoText == <<>>
Error(message, status, detail, at) ==
    [message |-> message, status |-> status, detail |-> detail, at |-> at]

InvalidKeyMessage == "Invalid API key format. API key must start with \"fs.\""
PlaceholderMessage ==
    "Please replace the placeholder API key with your actual FAQsimple API key"
FaqNumberRequiredMessage == "FAQ number is required"
RateLimitMessage == "Rate limit exceeded. Reset at: "
ApiErrorMessage == "API Error "
NetworkErrorMessage == "Network error: Unable to connect to FAQsimple API"
\* thrown by toISOString() of an Invalid Date
InvalidTimeMessage == "Invalid time value"
FetchThrown == ""

NoError == Error("", 0, NoText, 0)

fetchWord == <<"f","e","t","c","h">>

\* error.message.includes('fetch'): none of the fixed texts contains the
\* word, and each ends in a separator, so only the variable part decides
messageIncludesFetch(e) == includes(e.detail, fetchWord)

(***************************************************************************)
(* Cache keys                                                              *)
(***************************************************************************)
listfaqsKey == <<"l","i","s","t","f","a","q","s">>
listfaqsandquestionsKey ==
    <<"l","i","s","t","f","a","q","s","a","n","d","q","u","e","s","t","i","o","n","s">>
faqPrefix == <<"f","a","q","_">>

\* [mutant] the identifier alone is the key
faqKeyBare(faqNumber) == faqNumber

\* the template literal `faq_${faqNumber}`
faqKey(faqNumber) == faqPrefix \o faqNumber


(***************************************************************************)
(* searchFAQs: matching, ranking                                           *)
(***************************************************************************)

\* [mutant] the result carries the lower-cased texts that were compared
SearchResultLowerCased(query, faq, question, answer) ==
    [faq_number |-> faq.faq_number,
     faq_name   |-> faq.name,
     question   |-> toLowerCase(question.question_text),
     answer     |-> toLowerCase(answer.answer_text),
     relevance  |-> calculateRelevance(query, question.question_text,
                                       answer.answer_text)]

\* the object pushed onto `results'
SearchResult(query, faq, question, answer) ==
    [faq_number |-> faq.faq_number,
     faq_name   |-> faq.name,
     question   |-> question.question_text,
     answer     |-> answer.answer_text,
     relevance  |-> calculateRelevance(query, question.question_text,
                                       answer.answer_text)]

\* the loops over question.answers: with every = TRUE (the query is in the
\* question text) each answer is pushed, otherwise only the answers whose
\* text includes the query
RECURSIVE answerResults(_, _, _, _, _)
answerResults(query, faq, question, every, j) ==
    IF j > Len(question.answers) THEN <<>>
    ELSE LET answer == question.answers[j]
             push   == \/ every
                       \/ includes(toLowerCase(answer.answer_text),
                                   toLowerCase(query))
         IN  (IF push THEN <<SearchResult(query, faq, question, answer)>>
                      ELSE <<>>)
             \o answerResults(query, faq, question, every, j + 1)

\* [mutant] the answers of a matching question are filtered as well
questionResultsMatchingOnly(query, faq, question) ==
    answerResults(query, faq, question, FALSE, 1)

\* [mutant] every answer is pushed, whether the question matches or not
questionResultsEveryAnswer(query, faq, question) ==
    answerResults(query, faq, question, TRUE, 1)

\* the body of the loop over faqContent.questions: the if / else on the
\* question text
questionResults(query, faq, question) ==
    answerResults(query, faq, question,
                  includes(toLowerCase(question.question_text),
                           toLowerCase(query)), 1)

\* the loop over faqContent.questions
RECURSIVE faqResults(_, _, _, _)
faqResults(query, faq, questions, k) ==
    IF k > Len(questions) THEN <<>>
    ELSE questionResults(query, faq, questions[k])
         \o faqResults(query, faq, questions, k + 1)

\* [mutant] the comparator reversed: (a, b) => a.relevance - b.relevance
insertByRelevanceAscending(sorted, r) ==
    LET larger == {p \in 1..Len(sorted) :
                       RelLess(r.relevance, sorted[p].relevance)}
        at == IF larger = {} THEN Len(sorted) + 1
              ELSE CHOOSE p \in larger : \A o \in larger : p <= o
    IN  SubSeq(sorted, 1, at - 1) \o <<r>> \o SubSeq(sorted, at, Len(sorted))

\* [mutant] a sort that is not stable: a result is placed before the
\* earlier results of the same relevance
insertByRelevanceBeforeEqual(sorted, r) ==
    LET notLarger == {p \in 1..Len(sorted) :
                          RelLeq(sorted[p].relevance, r.relevance)}
        at == IF notLarger = {} THEN Len(sorted) + 1
              ELSE CHOOSE p \in notLarger : \A o \in notLarger : p <= o
    IN  SubSeq(sorted, 1, at - 1) \o <<r>> \o SubSeq(sorted, at, Len(sorted))

\* results.sort((a, b) => b.relevance - a.relevance): Array.prototype.sort
\* is stable, so a result is placed after the earlier results that are not
\* smaller and before the first one that is smaller
insertByRelevance(sorted, r) ==
    LET smaller == {p \in 1..Len(sorted) :
                        RelLess(sorted[p].relevance, r.relevance)}
        at == IF smaller = {} THEN Len(sorted) + 1
              ELSE CHOOSE p \in smaller : \A o \in smaller : p <= o
    IN  SubSeq(sorted, 1, at - 1) \o <<r>> \o SubSeq(sorted, at, Len(sorted))

RECURSIVE sortFrom(_, _, _)
sortFrom(results, k, sorted) ==
    IF k > Len(results) THEN sorted
    ELSE sortFrom(results, k + 1, insertByRelevance(sorted, results[k]))

sortByRelevance(results) == sortFrom(results, 1, <<>>)

\* the number of results searchFAQs returns at most
TopResults == 10

\* Array.prototype.slice(0, n)
sliceTop(results, n) ==
    SubSeq(results, 1, IF Len(results) < n THEN Len(results) ELSE n)


(***************************************************************************)
(* The FAQ service and its responses                                       *)
(***************************************************************************)

\* a decoded response body, a new object for every response: req is the
\* number of the fetch() call it answers, endpoint and param are the
\* document the service was asked for; list responses carry faqs, content
\* responses carry questions
Body(req, faqs, questions) ==
    [req |-> req, faqs |-> faqs, questions |-> questions,
     endpoint |-> "", param |-> <<>>]
NoBody == Body(0, <<>>, <<>>)

\* what the service holds: the FAQ list and the questions of each FAQ
serverBody(w, req, endpoint, param) ==
    LET document ==
            IF endpoint = "getfaqplusqa"
            THEN Body(req, <<>>, IF param \in DOMAIN w.content
                                 THEN w.content[param] ELSE <<>>)
            ELSE Body(req, w.faqs, <<>>)
    IN  [document EXCEPT !.endpoint = endpoint, !.param = param]

\* a response header: absent (headers.get gives null) or a text
NoHeader == [present |-> FALSE, text |-> <<>>]
Header(text) == [present |-> TRUE, text |-> text]

\* headers.get(name) || '0'
headerOrZero(h) == IF h.present /\ h.text # <<>> THEN h.text ELSE <<"0">>

\* the outcome of fetch(): an HTTP response, or a rejection with an error
HttpResponse(status, remaining, reset, jsonOk, message, statusText) ==
    [rejects |-> FALSE, status |-> status, remaining |-> remaining,
     reset |-> reset, jsonOk |-> jsonOk, message |-> message,
     statusText |-> statusText]
FetchRejects(detail) ==
    [rejects |-> TRUE, status |-> 0, remaining |-> NoHeader,
     reset |-> NoHeader, jsonOk |-> FALSE, message |-> detail,
     statusText |-> <<>>]

\* no response received yet
NoResponse == HttpResponse(0, NoHeader, NoHeader, FALSE, <<>>, <<>>)

\* response.ok
responseOk(resp) == resp.status >= 200 /\ resp.status <= 299

(***************************************************************************)
(* State                                                                   *)
(***************************************************************************)
VARIABLES
    constructed,          \* an instance exists (the constructor returned)
    thrown,               \* what the last constructor call threw
    apiKey,               \* this.apiKey
    cacheTimeout,         \* this.cacheTimeout
    rateLimitRemaining,   \* this.rateLimitRemaining
    rateLimitReset,       \* this.rateLimitReset
    cache,                \* this.cache: key -> [data, timestamp]
    now,                  \* Date.now()
    tasks,                \* the invocations of the async methods
    fetchCount,           \* number of fetch() calls issued so far
    calls,                \* number of method calls made so far
    world,                \* the data the FAQ service holds
    rel,                  \* inputs and output of a calculateRelevance call
    snapshot              \* what the last getRateLimitStatus() returned

fields == <<apiKey, cacheTimeout, rateLimitRemaining, rateLimitReset, cache>>
vars == <<constructed, thrown, apiKey, cacheTimeout, rateLimitRemaining,
          rateLimitReset, cache, now, tasks, fetchCount, calls, world,
          rel, snapshot>>

DefaultCacheTimeout == 300000
InitialRateLimitRemaining == 100
keyPrefix == <<"f","s",".">>

EmptyCache == [k \in {} |-> NoBody]

\* [mutant] the reset time is converted without testing it
rateLimitStatusNoTest(remaining, reset) ==
    [remaining |-> remaining, resetTime |-> dateOfSeconds(reset)]

\* the object getRateLimitStatus() returns for the two rate limit fields

rateLimitStatus(remaining, reset) ==
    [remaining |-> remaining,
     resetTime |-> IF truthy(reset) THEN dateOfSeconds(reset) ELSE Null]

\* the value a getRateLimitStatus() call returned, with the number of the
\* call
Snapshot(id, value) == [id |-> id, value |-> value]
NoSnapshot == Snapshot(0, [remaining |-> Undefined, resetTime |-> Undefined])

\* the object healthCheck() resolves with: error is the raw error of an
\* unclassified failure
Health(status, error) == [status |-> status, error |-> error]
NoHealth == Health("", NoError)

\* [mutant] an entry that exists is kept: only an absent key is written
cacheSetKeepExisting(c, key, data, time) ==
    [k \in DOMAIN c \cup {key} |->
        IF k \in DOMAIN c THEN c[k] ELSE [data |-> data, timestamp |-> time]]

\* [mutant] an entry that is overwritten keeps its timestamp
cacheSetKeepTimestamp(c, key, data, time) ==
    [k \in DOMAIN c \cup {key} |->
        IF k = key
        THEN [data |-> data,
              timestamp |-> IF key \in DOMAIN c THEN c[key].timestamp ELSE time]
        ELSE c[k]]

\* this.cache.set(key, { data, timestamp: Date.now() })
cacheSet(c, key, data, time) ==
    [k \in DOMAIN c \cup {key} |->
        IF k = key THEN [data |-> data, timestamp |-> time] ELSE c[k]]

\* [mutant] an entry as old as the lifetime still counts as fresh
cacheFreshInclusive(c, key, time) ==
    /\ key \in DOMAIN c
    /\ time - c[key].timestamp <= cacheTimeout

\* cached && Date.now() - cached.timestamp < this.cacheTimeout
cacheFresh(c, key, time) ==
    /\ key \in DOMAIN c
    /\ time - c[key].timestamp < cacheTimeout

\* one invocation of an async method.  pc: idle, fetching (suspended in
\* await fetch), resolved, rejected.  i = 0 while searchFAQs awaits the
\* FAQ list, otherwise the index of the FAQ whose content is awaited.
\* caller is the method or handler that awaits op, if any (healthCheck,
\* the search_faqs tool) with its argument limit and its results health
\* and content; resp is the last response this invocation received;
\* reported is the error a tool handler throws to its caller.
IdleTask ==
    [id |-> 0, op |-> "none", pc |-> "idle", arg |-> <<>>, key |-> <<>>,
     endpoint |-> "", param |-> <<>>, req |-> 0, faqs |-> <<>>, i |-> 0,
     results |-> <<>>, logged |-> <<>>, value |-> NoBody,
     returned |-> <<>>, error |-> NoError, caller |-> "",
     limit |-> Undefined, content |-> <<>>, health |-> NoHealth,
     resp |-> NoResponse, reported |-> NoError]


(***************************************************************************)
(* makeRequest, from the point where fetch() settles                       *)
(***************************************************************************)
jsonErrorText == <<"b","a","d"," ","j","s","o","n">>

\* the error thrown inside the try block, if any
thrownInTry(resp, newReset, time) ==
    IF resp.rejects
    THEN [throws |-> TRUE, error |-> Error(FetchThrown, 0, resp.message, 0)]
    ELSE IF resp.status = 429
    THEN LET resetTime == IF truthy(newReset) THEN dateOfSeconds(newReset)
                                               ELSE Date(time)
         IN  [throws |-> TRUE,
              error |-> IF resetTime = InvalidDate
                        THEN Error(InvalidTimeMessage, 0, NoText, 0)
                        ELSE Error(RateLimitMessage, 429, NoText,
                                   resetTime.v)]
    ELSE IF ~responseOk(resp)
    THEN [throws |-> TRUE,
          error |-> Error(ApiErrorMessage, resp.status,
                          IF resp.jsonOk /\ resp.message # <<>>
                          THEN resp.message ELSE resp.statusText, 0)]
    ELSE IF ~resp.jsonOk
    THEN [throws |-> TRUE, error |-> Error(FetchThrown, 0, jsonErrorText, 0)]
    ELSE [throws |-> FALSE, error |-> NoError]

\* the catch block: an error whose message includes 'fetch' is replaced
NetworkError == Error(NetworkErrorMessage, 0, NoText, 0)
catchBlock(e) == IF messageIncludesFetch(e) THEN NetworkError ELSE e

\* [mutant] the rate limit fields are updated from successful responses
\* only
makeRequestRateOnSuccess(resp, body, time, remaining, reset) ==
    LET newRemaining == parseInt(headerOrZero(resp.remaining))
        newReset     == parseInt(headerOrZero(resp.reset))
        t            == thrownInTry(resp, newReset, time)
    IN  [ok        |-> ~t.throws,
         data      |-> IF t.throws THEN NoBody ELSE body,
         error     |-> IF t.throws THEN catchBlock(t.error) ELSE NoError,
         remaining |-> IF t.throws THEN remaining ELSE newRemaining,
         reset     |-> IF t.throws THEN reset ELSE newReset]

\* outcome of makeRequest for the settled fetch `resp'; body is what the
\* service sends with a 2xx status; remaining and reset are the rate
\* limit fields before the call
makeRequest(resp, body, time, remaining, reset) ==
    LET newRemaining == parseInt(headerOrZero(resp.remaining))
        newReset     == parseInt(headerOrZero(resp.reset))
        t            == thrownInTry(resp, newReset, time)
    IN  [ok        |-> ~t.throws,
         data      |-> IF t.throws THEN NoBody ELSE body,
         error     |-> IF t.throws THEN catchBlock(t.error) ELSE NoError,
         remaining |-> IF resp.rejects THEN remaining ELSE newRemaining,
         reset     |-> IF resp.rejects THEN reset ELSE newReset]

(***************************************************************************)
(* getCached and the read operations, up to their first await fetch        *)
(***************************************************************************)

\* [mutant] the cache is never read: every call issues its request
getCachedAlwaysFetching(tk, c, time, key, endpoint, param) ==
    [tk EXCEPT !.pc = "fetching", !.key = key, !.endpoint = endpoint,
               !.param = param]

\* [mutant] no request is issued while the quota last seen is used up
getCachedThrottled(tk, c, time, key, endpoint, param) ==
    IF cacheFresh(c, key, time)
    THEN [tk EXCEPT !.pc = "resolved", !.value = c[key].data]
    ELSE IF rateLimitRemaining = Num(0)
    THEN [tk EXCEPT !.pc = "rejected",
                    !.error = Error(RateLimitMessage, 429, NoText, time)]
    ELSE [tk EXCEPT !.pc = "fetching", !.key = key, !.endpoint = endpoint,
                    !.param = param]

\* getCached(key, fetchFn) called by the invocation tk: a fresh entry is
\* returned, otherwise fetchFn issues the request and the task suspends
getCached(tk, c, time, key, endpoint, param) ==
    IF cacheFresh(c, key, time)
    THEN [tk EXCEPT !.pc = "resolved", !.value = c[key].data]
    ELSE [tk EXCEPT !.pc = "fetching", !.key = key, !.endpoint = endpoint,
                    !.param = param]

\* [mutant] the identifier is not tested
getFAQContentByUnchecked(tk, c, time, faqNumber) ==
    getCached(tk, c, time, faqKey(faqNumber), "getfaqplusqa", faqNumber)

\* getFAQContent(faqNumber) called by the invocation tk
getFAQContentBy(tk, c, time, faqNumber) ==
    IF faqNumber = <<>>
    THEN [tk EXCEPT !.pc = "rejected",
                    !.error = Error(FaqNumberRequiredMessage, 0, NoText, 0)]
    ELSE getCached(tk, c, time, faqKey(faqNumber), "getfaqplusqa", faqNumber)

\* console.error(`Error searching FAQ ${faq.faq_number}:`, error) in the
\* catch of the loop; index is the position of the FAQ in the list
Logged(tk, error) ==
    [index |-> tk.i, faq_number |-> tk.faqs[tk.i].faq_number, error |-> error]

\* the for loop of searchFAQs from FAQ number tk.i on, run until the next
\* await fetch or to the end; c is the cache, time is Date.now()
RECURSIVE searchLoop(_, _, _)
searchLoop(tk, c, time) ==
    IF tk.i > Len(tk.faqs)
    THEN [tk EXCEPT !.pc = "resolved",
                    !.returned = sliceTop(sortByRelevance(tk.results),
                                          TopResults)]
    ELSE LET faq == tk.faqs[tk.i]
             got == getFAQContentBy(tk, c, time, faq.faq_number)
         IN  IF got.pc = "fetching" THEN got
             ELSE IF got.pc = "rejected"
             THEN searchLoop([tk EXCEPT !.i = @ + 1,
                                 !.logged = Append(@, Logged(tk, got.error))],
                             c, time)
             ELSE searchLoop([tk EXCEPT !.i = @ + 1,
                                 !.results = @ \o faqResults(tk.arg, faq,
                                               got.value.questions, 1)],
                             c, time)

\* [mutant] the query is tested without trim()
searchFAQsByUntrimmed(tk, c, time, query) ==
    IF query = <<>>
    THEN [tk EXCEPT !.pc = "resolved", !.returned = <<>>]
    ELSE LET got == getCached(tk, c, time, listfaqsandquestionsKey,
                              "listfaqsandquestions", <<>>)
         IN  IF got.pc = "fetching" THEN got
             ELSE searchLoop([tk EXCEPT !.faqs = got.value.faqs, !.i = 1],
                             c, time)

\* searchFAQs(query) called by the invocation tk
searchFAQsBy(tk, c, time, query) ==
    IF trim(query) = <<>>
    THEN [tk EXCEPT !.pc = "resolved", !.returned = <<>>]
    ELSE LET got == getCached(tk, c, time, listfaqsandquestionsKey,
                              "listfaqsandquestions", <<>>)
         IN  IF got.pc = "fetching" THEN got
             ELSE searchLoop([tk EXCEPT !.faqs = got.value.faqs, !.i = 1],
                             c, time)

\* [mutant] no try/catch around the content fetch: its failure rejects
\* the search
resumeUncaught(tk, out, c, time) ==
    IF ~out.ok THEN [tk EXCEPT !.pc = "rejected", !.error = out.error]
    ELSE IF tk.op # "searchFAQs"
    THEN [tk EXCEPT !.pc = "resolved", !.value = out.data]
    ELSE IF tk.i = 0
    THEN searchLoop([tk EXCEPT !.faqs = out.data.faqs, !.i = 1], c, time)
    ELSE searchLoop([tk EXCEPT !.i = @ + 1,
                        !.results = @ \o faqResults(tk.arg, tk.faqs[tk.i],
                                              out.data.questions, 1)],
                    c, time)

\* [mutant] the list call of searchFAQs is inside the try as well: its
\* failure is caught and the search returns nothing
resumeListCaught(tk, out, c, time) ==
    IF tk.op # "searchFAQs"
    THEN IF out.ok THEN [tk EXCEPT !.pc = "resolved", !.value = out.data]
                   ELSE [tk EXCEPT !.pc = "rejected", !.error = out.error]
    ELSE IF tk.i = 0
    THEN IF out.ok
         THEN searchLoop([tk EXCEPT !.faqs = out.data.faqs, !.i = 1], c, time)
         ELSE [tk EXCEPT !.pc = "resolved", !.returned = <<>>]
    ELSE IF out.ok
         THEN searchLoop([tk EXCEPT !.i = @ + 1,
                             !.results = @ \o faqResults(tk.arg, tk.faqs[tk.i],
                                                   out.data.questions, 1)],
                         c, time)
         ELSE searchLoop([tk EXCEPT !.i = @ + 1,
                             !.logged = Append(@, Logged(tk, out.error))],
                         c, time)

\* [mutant] after the content of a FAQ arrived the scan goes on two
\* entries further
resumeSkipping(tk, out, c, time) ==
    IF tk.op # "searchFAQs"
    THEN IF out.ok THEN [tk EXCEPT !.pc = "resolved", !.value = out.data]
                   ELSE [tk EXCEPT !.pc = "rejected", !.error = out.error]
    ELSE IF tk.i = 0
    THEN IF out.ok
         THEN searchLoop([tk EXCEPT !.faqs = out.data.faqs, !.i = 1], c, time)
         ELSE [tk EXCEPT !.pc = "rejected", !.error = out.error]
    ELSE IF out.ok
         THEN searchLoop([tk EXCEPT !.i = @ + 2,
                             !.results = @ \o faqResults(tk.arg, tk.faqs[tk.i],
                                                   out.data.questions, 1)],
                         c, time)
         ELSE searchLoop([tk EXCEPT !.i = @ + 1,
                             !.logged = Append(@, Logged(tk, out.error))],
                         c, time)

\* [mutant] a read operation whose request failed issues it once more
resumeRetrying(tk, out, c, time) ==
    IF tk.op # "searchFAQs" /\ ~out.ok /\ tk.error = NoError
    THEN [tk EXCEPT !.pc = "fetching", !.error = out.error]
    ELSE IF ~out.ok /\ (tk.op # "searchFAQs" \/ tk.i = 0)
    THEN [tk EXCEPT !.pc = "rejected", !.error = out.error]
    ELSE IF tk.op # "searchFAQs"
    THEN [tk EXCEPT !.pc = "resolved", !.value = out.data]
    ELSE IF tk.i = 0
    THEN searchLoop([tk EXCEPT !.faqs = out.data.faqs, !.i = 1], c, time)
    ELSE IF out.ok
    THEN searchLoop([tk EXCEPT !.i = @ + 1,
                        !.results = @ \o faqResults(tk.arg, tk.faqs[tk.i],
                                              out.data.questions, 1)],
                    c, time)
    ELSE searchLoop([tk EXCEPT !.i = @ + 1,
                        !.logged = Append(@, Logged(tk, out.error))],
                    c, time)

\* the invocation tk resumed after its fetch settled with outcome out
\* (of makeRequest); c is the cache after getCached stored the data
resume(tk, out, c, time) ==
    IF tk.op # "searchFAQs"
    THEN IF out.ok THEN [tk EXCEPT !.pc = "resolved", !.value = out.data]
                   ELSE [tk EXCEPT !.pc = "rejected", !.error = out.error]
    ELSE IF tk.i = 0
    THEN IF out.ok
         THEN searchLoop([tk EXCEPT !.faqs = out.data.faqs, !.i = 1], c, time)
         ELSE [tk EXCEPT !.pc = "rejected", !.error = out.error]
    ELSE IF out.ok
         THEN searchLoop([tk EXCEPT !.i = @ + 1,
                             !.results = @ \o faqResults(tk.arg, tk.faqs[tk.i],
                                                   out.data.questions, 1)],
                         c, time)
         ELSE searchLoop([tk EXCEPT !.i = @ + 1,
                             !.logged = Append(@, Logged(tk, out.error))],
                         c, time)

(***************************************************************************)
(* healthCheck and the tool handlers, which await a client method          *)
(***************************************************************************)
ConnectionErrorStatus == "connection_error"
AuthErrorStatus == "auth_error"

\* healthCheck: what the outcome of its listFAQs() call is classified as
healthOf(tk) ==
    IF tk.pc = "resolved" THEN Health("ok", NoError)
    ELSE IF tk.error.message = NetworkErrorMessage
    THEN Health(ConnectionErrorStatus, NoError)
    ELSE IF tk.error.message = ApiErrorMessage /\ tk.error.status \in {401, 403}
    THEN Health(AuthErrorStatus, NoError)
    ELSE Health("error", tk.error)

QueryRequiredMessage == "Query parameter is required"
FaqNumberParamMessage == "faq_number parameter is required"
ToolFailedMessage == "Tool execution failed: "
UnableToConnectMessage ==
    "Unable to connect to https://api.faqsimple.io/v1. Please ensure you have a valid connection."
InvalidKeyToolMessage ==
    "Your API Key seems invalid, please contact FAQsimple support (support@faqsimple.com) for assistance if needed."

\* the decimal digits of a natural number
RECURSIVE digitsOf(_)
digitsOf(n) ==
    IF n < 10 THEN <<Digits[n + 1]>>
    ELSE Append(digitsOf(n \div 10), Digits[(n % 10) + 1])

\* n written with at least `width' digits
RECURSIVE padStart(_, _)
padStart(s, width) == IF Len(s) >= width THEN s ELSE padStart(<<"0">> \o s, width)

MsPerSecond == 1000
MsPerMinute == 60000
MsPerHour == 3600000

\* Date.prototype.toISOString() of a time in the first hour of the epoch
toISOString(ms) ==
    <<"1","9","7","0","-","0","1","-","0","1","T","0","0",":">>
    \o padStart(digitsOf((ms % MsPerHour) \div MsPerMinute), 2) \o <<":">>
    \o padStart(digitsOf((ms % MsPerMinute) \div MsPerSecond), 2) \o <<".">>
    \o padStart(digitsOf(ms % MsPerSecond), 3) \o <<"Z">>

\* the texts the catch block of the tool handler looks for
networkErrorText == <<"N","e","t","w","o","r","k"," ","e","r","r","o","r">>
unableToConnectText ==
    <<"U","n","a","b","l","e"," ","t","o"," ","c","o","n","n","e","c","t">>
text401 == <<"4","0","1">>
text403 == <<"4","0","3">>
invalidApiKeyText ==
    <<"I","n","v","a","l","i","d"," ","A","P","I"," ","k","e","y">>
placeholderApiKeyText ==
    <<"p","l","a","c","e","h","o","l","d","e","r"," ","A","P","I"," ","k","e","y">>

\* the part of error.message that follows its fixed text
variableText(e) ==
    IF e.message = ApiErrorMessage
    THEN digitsOf(e.status) \o <<":"," ">> \o e.detail
    ELSE IF e.message = RateLimitMessage THEN toISOString(e.at)
    ELSE e.detail

\* errorMessage.includes(text) for one of the texts above: the fixed text
\* of the message holds it, or the variable part does (every fixed text
\* ends in a separator, so no occurrence spans the two)
errorMessageIncludes(e, text) ==
    \/ e.message = NetworkErrorMessage
          /\ text \in {networkErrorText, unableToConnectText}
    \/ e.message = InvalidKeyMessage /\ text = invalidApiKeyText
    \/ e.message = PlaceholderMessage /\ text = placeholderApiKeyText
    \/ includes(variableText(e), text)

\* the catch block of the tool handler: an McpError is thrown again as it
\* is; any other error is told apart by the texts its message includes
toolError(e) ==
    IF e.message \in {QueryRequiredMessage, FaqNumberParamMessage} THEN e
    ELSE IF \/ errorMessageIncludes(e, networkErrorText)
            \/ errorMessageIncludes(e, unableToConnectText)
    THEN Error(UnableToConnectMessage, 0, NoText, 0)
    ELSE IF \/ errorMessageIncludes(e, text401)
            \/ errorMessageIncludes(e, text403)
            \/ errorMessageIncludes(e, invalidApiKeyText)
    THEN Error(InvalidKeyToolMessage, 0, NoText, 0)
    ELSE IF errorMessageIncludes(e, placeholderApiKeyText)
    THEN Error(PlaceholderMessage, 0, NoText, 0)
    ELSE Error(ToolFailedMessage, e.status, e.detail, e.at)

DefaultLimit == 10
LimitCap == 50

\* (args?.limit as number) || 10, then Math.min(limit, 50)
toolLimit(limit) ==
    LET l == IF truthy(limit) THEN limit.v ELSE DefaultLimit
    IN  IF l < LimitCap THEN l ELSE LimitCap

\* the continuation of the method or handler that awaits the invocation
\* tk, run when tk settles
callerResumes(tk) ==
    IF tk.pc \notin {"resolved", "rejected"} THEN tk
    ELSE IF tk.caller = "healthCheck"
    THEN [tk EXCEPT !.pc = "resolved", !.health = healthOf(tk)]
    ELSE IF tk.caller = "search_faqs"
    THEN IF tk.pc = "resolved"
         THEN [tk EXCEPT !.content = sliceTop(tk.returned, toolLimit(tk.limit))]
         ELSE [tk EXCEPT !.reported = toolError(tk.error)]
    ELSE IF tk.caller \in {"get_faq_content", "list_faqs"}
    THEN IF tk.pc = "resolved" THEN tk
         ELSE [tk EXCEPT !.reported = toolError(tk.error)]
    ELSE tk

(***************************************************************************)
(* Bounds                                                                  *)
(***************************************************************************)
MaxCalls   == 3      \* method calls in one behaviour
MaxTime    == 3      \* the clock runs from 0 to MaxTime
Tasks      == {1}    \* task slots: invocations pending at the same time

(***************************************************************************)
(* Actions                                                                 *)
(***************************************************************************)

\* [mutant] includes('fs.') in place of startsWith('fs.')
invalidApiKeyAnywhere(key) == key = <<>> \/ ~includes(key, keyPrefix)

\* the test of the constructor: !apiKey || !apiKey.startsWith('fs.')
invalidApiKey(key) == key = <<>> \/ ~startsWith(key, keyPrefix)

\* new FAQsimpleAPI(config): the fields are initialised and assigned from
\* config, then the key is tested; when the constructor throws, the object
\* is dropped and no instance exists
constructor(config) ==
    /\ ~constructed
    /\ apiKey' = config.apiKey
    /\ cacheTimeout' = IF truthy(config.cacheTimeout)
                       THEN config.cacheTimeout.v
                       ELSE DefaultCacheTimeout
    /\ rateLimitRemaining' = Num(InitialRateLimitRemaining)
    /\ rateLimitReset' = Null
    /\ cache' = EmptyCache
    /\ IF invalidApiKey(config.apiKey)
       THEN /\ thrown' = Error(InvalidKeyMessage, 0, NoText, 0)
            /\ constructed' = FALSE
       ELSE /\ thrown' = NoError
            /\ constructed' = TRUE
    /\ UNCHANGED <<now, tasks, fetchCount, calls, world, rel, snapshot>>

\* a method is called in task slot t: the slot holds no pending invocation
canCall(t) ==
    /\ constructed
    /\ calls < MaxCalls
    /\ tasks[t].pc # "fetching"

newTask(op, arg) == [IdleTask EXCEPT !.id = calls + 1, !.op = op, !.arg = arg]

\* the invocation in slot t ran up to its first await fetch, or to its end
started(t, tk) ==
    /\ fetchCount' = IF tk.pc = "fetching" THEN fetchCount + 1 ELSE fetchCount
    /\ tasks' = [tasks EXCEPT ![t] = IF tk.pc = "fetching"
                                      THEN [tk EXCEPT !.req = fetchCount']
                                      ELSE callerResumes(tk)]
    /\ calls' = calls + 1
    /\ UNCHANGED <<constructed, thrown, fields, now, world, rel, snapshot>>

listFAQs(t) ==
    /\ canCall(t)
    /\ started(t, getCached(newTask("listFAQs", <<>>), cache, now,
                            listfaqsKey, "listfaqs", <<>>))

listFAQsAndQuestions(t) ==
    /\ canCall(t)
    /\ started(t, getCached(newTask("listFAQsAndQuestions", <<>>), cache, now,
                            listfaqsandquestionsKey, "listfaqsandquestions",
                            <<>>))

getFAQContent(t, faqNumber) ==
    /\ canCall(t)
    /\ started(t, getFAQContentBy(newTask("getFAQContent", faqNumber),
                                  cache, now, faqNumber))

searchFAQs(t, query) ==
    /\ canCall(t)
    /\ started(t, searchFAQsBy(newTask("searchFAQs", query), cache, now, query))

\* healthCheck(): a listFAQs() call whose outcome is classified
healthCheck(t) ==
    /\ canCall(t)
    /\ started(t, getCached([newTask("listFAQs", <<>>)
                               EXCEPT !.caller = "healthCheck"],
                            cache, now, listfaqsKey, "listfaqs", <<>>))

\* the search_faqs tool called with args = { query, limit }
search_faqs(t, query, limit) ==
    /\ canCall(t)
    /\ LET tk == [newTask("searchFAQs", query)
                   EXCEPT !.caller = "search_faqs", !.limit = limit]
       IN  started(t, IF query = <<>>
                      THEN [tk EXCEPT !.pc = "rejected",
                                      !.error = Error(QueryRequiredMessage, 0,
                                                      NoText, 0)]
                      ELSE searchFAQsBy(tk, cache, now, query))

\* the get_faq_content tool called with args = { faq_number }
get_faq_content(t, faqNumber) ==
    /\ canCall(t)
    /\ LET tk == [newTask("getFAQContent", faqNumber)
                   EXCEPT !.caller = "get_faq_content"]
       IN  started(t, IF faqNumber = <<>>
                      THEN [tk EXCEPT !.pc = "rejected",
                                      !.error = Error(FaqNumberParamMessage, 0,
                                                      NoText, 0)]
                      ELSE getFAQContentBy(tk, cache, now, faqNumber))

\* the list_faqs tool: listFAQs(), then getRateLimitStatus() for the text
\* of the reply
list_faqs(t) ==
    /\ canCall(t)
    /\ started(t, getCached([newTask("listFAQs", <<>>)
                               EXCEPT !.caller = "list_faqs"],
                            cache, now, listfaqsKey, "listfaqs", <<>>))

\* getRateLimitStatus()
getRateLimitStatus ==
    /\ constructed
    /\ calls < MaxCalls
    /\ snapshot' = Snapshot(calls + 1, rateLimitStatus(rateLimitRemaining,
                                                       rateLimitReset))
    /\ calls' = calls + 1
    /\ UNCHANGED <<constructed, thrown, fields, now, tasks, fetchCount,
                   world, rel>>

\* [mutant] only the entries that are no longer fresh are removed
clearCacheStaleOnly ==
    /\ constructed
    /\ calls < MaxCalls
    /\ cache' = [k \in {k \in DOMAIN cache : cacheFresh(cache, k, now)}
                    |-> cache[k]]
    /\ calls' = calls + 1
    /\ UNCHANGED <<constructed, thrown, apiKey, cacheTimeout,
                   rateLimitRemaining, rateLimitReset, now, tasks,
                   fetchCount, world, rel, snapshot>>

\* clearCache()
clearCache ==
    /\ constructed
    /\ calls < MaxCalls
    /\ cache' = EmptyCache
    /\ calls' = calls + 1
    /\ UNCHANGED <<constructed, thrown, apiKey, cacheTimeout,
                   rateLimitRemaining, rateLimitReset, now, tasks,
                   fetchCount, world, rel, snapshot>>

\* [mutant] a failed fetch removes the entry of its key
fetchSettlesDroppingEntry(t, resp) ==
    /\ tasks[t].pc = "fetching"
    /\ LET tk  == [tasks[t] EXCEPT !.resp = resp]
           out == makeRequest(resp,
                              serverBody(world, tk.req, tk.endpoint, tk.param),
                              now, rateLimitRemaining, rateLimitReset)
           c   == IF out.ok THEN cacheSet(cache, tk.key, out.data, now)
                            ELSE [k \in DOMAIN cache \ {tk.key} |-> cache[k]]
           tk2 == resume(tk, out, c, now)
       IN  /\ rateLimitRemaining' = out.remaining
           /\ rateLimitReset' = out.reset
           /\ cache' = c
           /\ fetchCount' = IF tk2.pc = "fetching" THEN fetchCount + 1
                            ELSE fetchCount
           /\ tasks' = [tasks EXCEPT ![t] = IF tk2.pc = "fetching"
                                             THEN [tk2 EXCEPT !.req = fetchCount']
                                             ELSE callerResumes(tk2)]
    /\ UNCHANGED <<constructed, thrown, apiKey, cacheTimeout, now, calls,
                   world, rel, snapshot>>

\* the fetch awaited by the invocation in slot t settles with resp: the
\* rest of makeRequest, of getCached and of the calling method run
fetchSettles(t, resp) ==
    /\ tasks[t].pc = "fetching"
    /\ LET tk  == [tasks[t] EXCEPT !.resp = resp]
           out == makeRequest(resp,
                              serverBody(world, tk.req, tk.endpoint, tk.param),
                              now, rateLimitRemaining, rateLimitReset)
           c   == IF out.ok THEN cacheSet(cache, tk.key, out.data, now)
                            ELSE cache
           tk2 == resume(tk, out, c, now)
       IN  /\ rateLimitRemaining' = out.remaining
           /\ rateLimitReset' = out.reset
           /\ cache' = c
           /\ fetchCount' = IF tk2.pc = "fetching" THEN fetchCount + 1
                            ELSE fetchCount
           /\ tasks' = [tasks EXCEPT ![t] = IF tk2.pc = "fetching"
                                             THEN [tk2 EXCEPT !.req = fetchCount']
                                             ELSE callerResumes(tk2)]
    /\ UNCHANGED <<constructed, thrown, apiKey, cacheTimeout, now, calls,
                   world, rel, snapshot>>

\* [mutant] an invocation that is still pending when the clock advances is
\* rejected: a timeout of one clock step
tickTimingOut ==
    /\ now < MaxTime
    /\ now' = now + 1
    /\ tasks' = [t \in DOMAIN tasks |->
                    IF tasks[t].pc = "fetching"
                    THEN [tasks[t] EXCEPT !.pc = "rejected",
                                          !.error = Error(FetchThrown, 0,
                                                          NoText, 0)]
                    ELSE tasks[t]]
    /\ UNCHANGED <<constructed, thrown, fields, fetchCount, calls,
                   world, rel, snapshot>>

\* time passes
tick ==
    /\ now < MaxTime
    /\ now' = now + 1
    /\ UNCHANGED <<constructed, thrown, fields, tasks, fetchCount, calls,
                   world, rel, snapshot>>

(***************************************************************************)
(* Inputs                                                                  *)
(***************************************************************************)
placeholderKey ==
    <<"f","s",".","y","o","u","r",".","a","p","i",".","k","e","y",".","h","e","r","e">>

ApiKeys ==
    { <<>>,
      <<"i","n","v","a","l","i","d","-","k","e","y">>,
      <<"f","s">>,
      <<"x","f","s",".">>,
      <<"f","s",".","t","e","s","t",".","k","e","y">>,
      placeholderKey }

Config(key, timeout) == [apiKey |-> key, cacheTimeout |-> timeout]
Configs == {Config(k, Num(2)) : k \in ApiKeys}

Faq(number, name) == [faq_number |-> number, name |-> name]
Answer(text) == [answer_text |-> text]
Question(text, answers) == [question_text |-> text, answers |-> answers]
World(faqs, content) == [faqs |-> faqs, content |-> content]

\* one FAQ with one question that has two answers
SmallWorld ==
    World(<<Faq(<<"1">>, <<"P">>)>>,
          <<"1">> :> <<Question(<<"A"," ","b">>,
                                <<Answer(<<"c">>), Answer(<<"a">>)>>)>>)

Worlds == {SmallWorld}

FaqNumbers == {<<>>, <<"1">>}
Queries == {<<>>, <<"\t"," ">>, <<"a">>}

ok200 == HttpResponse(200, Header(<<"5","0">>), Header(<<"9">>), TRUE,
                      <<>>, <<"O","K">>)
unauthorized401 ==
    HttpResponse(401, Header(<<"0">>), NoHeader, TRUE,
                 <<"b","a","d"," ","k","e","y">>, <<"U","n","a","u","t","h">>)
tooMany429 == HttpResponse(429, Header(<<"0">>), Header(<<"7">>), TRUE,
                           <<>>, <<"T","o","o"," ","M","a","n","y">>)
fetchFailed == FetchRejects(<<"f","e","t","c","h"," ","f","a","i","l","e","d">>)

Responses == {ok200, unauthorized401, fetchFailed}

NoRel == [query |-> <<>>, questionText |-> <<>>, answerText |-> <<>>,
          called |-> FALSE, result |-> [num |-> 0, den |-> 1]]

(***************************************************************************)
(* The client among its callers and the FAQ service                        *)
(***************************************************************************)
InitClient ==
    /\ constructed = FALSE
    /\ thrown = NoError
    /\ apiKey = <<>>
    /\ cacheTimeout = 0
    /\ rateLimitRemaining = Num(InitialRateLimitRemaining)
    /\ rateLimitReset = Null
    /\ cache = EmptyCache
    /\ now = 0
    /\ tasks = [t \in Tasks |-> IdleTask]
    /\ fetchCount = 0
    /\ calls = 0
    /\ snapshot = NoSnapshot

Init ==
    /\ InitClient
    /\ world \in Worlds
    /\ rel = NoRel

Construct == \E config \in Configs : constructor(config)
CallListFAQs == \E t \in Tasks : listFAQs(t)
CallListFAQsAndQuestions == \E t \in Tasks : listFAQsAndQuestions(t)
CallGetFAQContent == \E t \in Tasks : \E n \in FaqNumbers : getFAQContent(t, n)
CallSearchFAQs == \E t \in Tasks : \E q \in Queries : searchFAQs(t, q)
CallClearCache == clearCache
FetchSettles == \E t \in Tasks : \E resp \in Responses : fetchSettles(t, resp)
Tick == tick

Next ==
    \/ Construct
    \/ CallListFAQs
    \/ CallListFAQsAndQuestions
    \/ CallGetFAQContent
    \/ CallSearchFAQs
    \/ CallClearCache
    \/ FetchSettles
    \/ Tick

Spec == Init /\ [][Next]_vars


(***************************************************************************)
(* searchFAQs over larger data: one caller, a client already constructed   *)
(***************************************************************************)

\* one question whose text contains "a" and whose two answers do not, one
\* question without a match, a FAQ without questions and a list entry
\* without a number
TwoAnswerWorld ==
    World(<<Faq(<<"1">>, <<"P">>), Faq(<<>>, <<"E">>), Faq(<<"2">>, <<"Q">>)>>,
          <<"1">> :> <<Question(<<"x">>, <<Answer(<<"y">>)>>),
                       Question(<<"A"," ","b">>,
                                <<Answer(<<"c">>), Answer(<<"d">>)>>)>>
          @@ <<"2">> :> <<>>)

\* what every FAQ of BigWorld holds: five candidates for the query "a b",
\* scanned in the order 3/10, 3/10, 7/10, 17/20, 1
BigQuestions ==
    <<Question(<<"c">>, <<Answer(<<"a"," ","b">>),
                          Answer(<<"x","A"," ","b">>),
                          Answer(<<"b">>)>>),
      Question(<<"a"," ","B">>, <<Answer(<<"c">>), Answer(<<"a">>),
                                  Answer(<<"b"," ","a"," ","b">>)>>)>>

BigWorld ==
    World(<<Faq(<<"1">>, <<"P">>), Faq(<<"2">>, <<"Q">>), Faq(<<"3">>, <<"R">>)>>,
          <<"1">> :> BigQuestions @@ <<"2">> :> BigQuestions
          @@ <<"3">> :> BigQuestions)

SearchWorlds == {TwoAnswerWorld, BigWorld}
SearchQueries == {<<"a">>, <<"a"," ","b">>, <<"B">>, <<" ">>, <<"a"," ">>}
SearchResponses == {ok200, unauthorized401, fetchFailed}
testKey == <<"f","s",".","t","e","s","t",".","k","e","y">>

InitSearch ==
    /\ constructed = TRUE
    /\ thrown = NoError
    /\ apiKey = testKey
    /\ cacheTimeout = DefaultCacheTimeout
    /\ rateLimitRemaining = Num(InitialRateLimitRemaining)
    /\ rateLimitReset = Null
    /\ cache = EmptyCache
    /\ now = 0
    /\ tasks = [t \in Tasks |-> IdleTask]
    /\ fetchCount = 0
    /\ calls = 0
    /\ snapshot = NoSnapshot
    /\ world \in SearchWorlds
    /\ rel = NoRel

SearchCalled == \E t \in Tasks : \E q \in SearchQueries : searchFAQs(t, q)
SearchFetchSettles ==
    \E t \in Tasks : \E resp \in SearchResponses : fetchSettles(t, resp)

NextSearch ==
    \/ SearchCalled
    \/ SearchFetchSettles

SpecSearch == InitSearch /\ [][NextSearch]_vars

(***************************************************************************)
(* The search_faqs tool over the same data                                 *)
(***************************************************************************)

\* limit as the tool may receive it: absent, or a number from 1 to 50
Limits == {Undefined, Num(1), Num(12), Num(50)}
ToolQueries == {<<>>, <<"a">>, <<"a"," ","b">>, <<" ">>}

ToolCalled ==
    \E t \in Tasks : \E q \in ToolQueries : \E l \in Limits :
        search_faqs(t, q, l)
ToolFetchSettles ==
    \E t \in Tasks : \E resp \in SearchResponses : fetchSettles(t, resp)

NextTool ==
    \/ ToolCalled
    \/ ToolFetchSettles

SpecTool == InitSearch /\ [][NextTool]_vars

(***************************************************************************)
(* The transport: one caller of the read operations, of healthCheck and of *)
(* getRateLimitStatus, and a service that answers in every way, at one     *)
(* time of the clock                                                       *)
(***************************************************************************)

listfaqsNumber == <<"l","i","s","t","f","a","q","s">>

\* two FAQs, one of them numbered like the list endpoint
TransportWorld ==
    World(<<Faq(<<"1">>, <<"P">>), Faq(listfaqsNumber, <<"Q">>)>>,
          <<"1">> :> <<Question(<<"a">>, <<Answer(<<"b">>)>>)>>
          @@ listfaqsNumber :> <<Question(<<"c">>, <<Answer(<<"d">>)>>)>>)

TransportFaqNumbers == {<<"1">>, listfaqsNumber}

notNumeric == <<"a","b","c">>
hugeNumber == <<"9","9","9","9","9","9","9","9","9","9","9","9","9","9">>

okBadHeaders ==
    HttpResponse(200, Header(notNumeric), Header(<<"-","5">>), TRUE,
                 <<>>, <<"O","K">>)
forbidden403 ==
    HttpResponse(403, NoHeader, NoHeader, TRUE,
                 <<"F","o","r","b","i","d","d","e","n">>,
                 <<"F","o","r","b","i","d","d","e","n">>)
\* error bodies whose message holds the word "fetch"
forbidden403Fetch ==
    HttpResponse(403, NoHeader, NoHeader, TRUE,
                 <<"n","o"," ","f","e","t","c","h">>,
                 <<"F","o","r","b","i","d","d","e","n">>)
server500 ==
    HttpResponse(500, Header(<<"4">>), Header(<<"9">>), TRUE,
                 <<"c","a","n","n","o","t"," ","f","e","t","c","h">>,
                 <<"E","r","r","o","r">>)
\* an error body that is not JSON
badGateway502 ==
    HttpResponse(502, Header(<<"4">>), Header(<<"9">>), FALSE,
                 <<>>, <<"B","a","d"," ","G","a","t","e","w","a","y">>)
tooMany429NoReset ==
    HttpResponse(429, Header(<<"0">>), NoHeader, TRUE,
                 <<>>, <<"T","o","o"," ","M","a","n","y">>)
tooMany429ZeroReset ==
    HttpResponse(429, Header(<<"0">>), Header(<<"0">>), TRUE,
                 <<>>, <<"T","o","o"," ","M","a","n","y">>)
tooMany429HugeReset ==
    HttpResponse(429, Header(<<"0">>), Header(hugeNumber), TRUE,
                 <<>>, <<"T","o","o"," ","M","a","n","y">>)
\* the rejection of node-fetch: "request to <url> failed, reason: ..."
connectionRefused ==
    FetchRejects(<<"E","C","O","N","N","R","E","F","U","S","E","D">>)

TransportResponses ==
    {ok200, okBadHeaders, unauthorized401, forbidden403, forbidden403Fetch,
     server500,
     badGateway502, tooMany429, tooMany429NoReset, tooMany429ZeroReset,
     tooMany429HugeReset, fetchFailed, connectionRefused}

InitTransport ==
    /\ constructed = TRUE
    /\ thrown = NoError
    /\ apiKey = testKey
    /\ cacheTimeout = 1
    /\ rateLimitRemaining = Num(InitialRateLimitRemaining)
    /\ rateLimitReset = Null
    /\ cache = EmptyCache
    /\ now = 0
    /\ tasks = [t \in Tasks |-> IdleTask]
    /\ fetchCount = 0
    /\ calls = 0
    /\ snapshot = NoSnapshot
    /\ world = TransportWorld
    /\ rel = NoRel

TransportListFAQs == \E t \in Tasks : listFAQs(t)
TransportListFAQsAndQuestions ==
    \E t \in Tasks : listFAQsAndQuestions(t)
TransportGetFAQContent ==
    \E t \in Tasks : \E n \in TransportFaqNumbers : getFAQContent(t, n)
TransportHealthCheck == \E t \in Tasks : healthCheck(t)
TransportGetRateLimitStatus == getRateLimitStatus
TransportFetchSettles ==
    \E t \in Tasks : \E resp \in TransportResponses : fetchSettles(t, resp)

NextTransport ==
    \/ TransportListFAQs
    \/ TransportListFAQsAndQuestions
    \/ TransportGetFAQContent
    \/ TransportHealthCheck
    \/ TransportGetRateLimitStatus
    \/ TransportFetchSettles

SpecTransport == InitTransport /\ [][NextTransport]_vars

(***************************************************************************)
(* The three tools and a service that fails in every way                   *)
(***************************************************************************)

\* error bodies whose message holds a text the tool handler looks for
notFound404Names401 ==
    HttpResponse(404, Header(<<"4">>), Header(<<"9">>), TRUE,
                 <<"n","o"," ","F","A","Q"," ","4","0","1">>,
                 <<"N","o","t"," ","F","o","u","n","d">>)
server500InvalidKey ==
    HttpResponse(500, Header(<<"4">>), Header(<<"9">>), TRUE,
                 invalidApiKeyText \o <<" ","s","t","o","r","e">>,
                 <<"E","r","r","o","r">>)
unavailable503Unable ==
    HttpResponse(503, Header(<<"4">>), Header(<<"9">>), TRUE,
                 unableToConnectText \o <<" ","t","o"," ","d","b">>,
                 <<"U","n","a","v","a","i","l","a","b","l","e">>)

ToolErrorResponses ==
    {ok200, unauthorized401, forbidden403, forbidden403Fetch, badGateway502,
     notFound404Names401, server500InvalidKey, unavailable503Unable,
     tooMany429, tooMany429NoReset, fetchFailed, connectionRefused}

\* the milliseconds of the clock when the first call is made
ToolErrorTimes == {0, 401}

InitToolErrors ==
    /\ constructed = TRUE
    /\ thrown = NoError
    /\ apiKey = testKey
    /\ cacheTimeout = DefaultCacheTimeout
    /\ rateLimitRemaining = Num(InitialRateLimitRemaining)
    /\ rateLimitReset = Null
    /\ cache = EmptyCache
    /\ now \in ToolErrorTimes
    /\ tasks = [t \in Tasks |-> IdleTask]
    /\ fetchCount = 0
    /\ calls = 0
    /\ snapshot = NoSnapshot
    /\ world = SmallWorld
    /\ rel = NoRel

ToolErrorsSearchFaqs ==
    \E t \in Tasks : \E q \in {<<>>, <<"a">>} : search_faqs(t, q, Undefined)
ToolErrorsGetFaqContent ==
    \E t \in Tasks : \E n \in FaqNumbers : get_faq_content(t, n)
ToolErrorsListFaqs == \E t \in Tasks : list_faqs(t)
ToolErrorsFetchSettles ==
    \E t \in Tasks : \E resp \in ToolErrorResponses : fetchSettles(t, resp)

NextToolErrors ==
    \/ ToolErrorsSearchFaqs
    \/ ToolErrorsGetFaqContent
    \/ ToolErrorsListFaqs
    \/ ToolErrorsFetchSettles

SpecToolErrors == InitToolErrors /\ [][NextToolErrors]_vars

(***************************************************************************)
(* Two callers whose read operations overlap                               *)
(***************************************************************************)
MaxConcurrentTime == 1   \* the clock runs from 0 to MaxConcurrentTime
ConcurrentTasks == {1, 2}
ConcurrentResponses == {ok200, unauthorized401, tooMany429}

InitConcurrent ==
    /\ constructed = TRUE
    /\ thrown = NoError
    /\ apiKey = testKey
    /\ cacheTimeout = 1
    /\ rateLimitRemaining = Num(InitialRateLimitRemaining)
    /\ rateLimitReset = Null
    /\ cache = EmptyCache
    /\ now = 0
    /\ tasks = [t \in ConcurrentTasks |-> IdleTask]
    /\ fetchCount = 0
    /\ calls = 0
    /\ snapshot = NoSnapshot
    /\ world = SmallWorld
    /\ rel = NoRel

ConcurrentListFAQs == \E t \in ConcurrentTasks : listFAQs(t)
ConcurrentGetFAQContent ==
    \E t \in ConcurrentTasks : getFAQContent(t, <<"1">>)
ConcurrentFetchSettles ==
    \E t \in ConcurrentTasks : \E resp \in ConcurrentResponses :
        fetchSettles(t, resp)
ConcurrentTick == now < MaxConcurrentTime /\ tick

NextConcurrent ==
    \/ ConcurrentListFAQs
    \/ ConcurrentGetFAQContent
    \/ ConcurrentFetchSettles
    \/ ConcurrentTick

SpecConcurrent == InitConcurrent /\ [][NextConcurrent]_vars

(***************************************************************************)
(* calculateRelevance as a function of its three arguments                 *)
(***************************************************************************)
MaxQueryLen == 3     \* characters in a query
MaxTextLen  == 2     \* characters in a question or answer text

RelAlphabet == {"a", "B", " "}
TextsUpTo(n) == UNION {[1..k -> RelAlphabet] : k \in 0..n}

examplePasswordQuery ==
    <<"p","a","s","s","w","o","r","d"," ","r","e","s","e","t">>
examplePasswordQuestion ==
    <<"H","o","w"," ","d","o"," ","I"," ","r","e","s","e","t"," ","m","y"," ",
      "p","a","s","s","w","o","r","d","?">>
examplePasswordAnswer ==
    <<"C","l","i","c","k"," ","f","o","r","g","o","t"," ","p","a","s","s","w",
      "o","r","d"," ","a","n","d"," ","f","o","l","l","o","w"," ","t","h","e",
      " ","s","t","e","p","s",".">>

RelInput(q, qt, at) ==
    [query |-> q, questionText |-> qt, answerText |-> at,
     called |-> FALSE, result |-> [num |-> 0, den |-> 1]]

InitRel ==
    /\ InitClient
    /\ world = SmallWorld
    /\ \/ \E q \in TextsUpTo(MaxQueryLen) :
            \E qt \in TextsUpTo(MaxTextLen) :
               \E at \in TextsUpTo(MaxTextLen) : rel = RelInput(q, qt, at)
       \/ rel = RelInput(examplePasswordQuery, examplePasswordQuestion,
                         examplePasswordAnswer)

\* this.calculateRelevance(query, questionText, answerText)
CalculateRelevance ==
    /\ ~rel.called
    /\ rel' = [rel EXCEPT !.called = TRUE,
                          !.result = calculateRelevance(rel.query,
                                        rel.questionText, rel.answerText)]
    /\ UNCHANGED <<constructed, thrown, fields, now, tasks, fetchCount,
                   calls, world, snapshot>>

NextRel == CalculateRelevance

SpecRel == InitRel /\ [][NextRel]_vars


(***************************************************************************)
(* Properties                                                              *)
(***************************************************************************)

\* the text is empty or holds whitespace only
Blank(text) == \A i \in 1..Len(text) : IsSpace(text[i])

\* query occurs in text when letter case is ignored
ContainsIgnoringCase(text, query) ==
    \E off \in 0..(Len(text) - Len(query)) :
        \A j \in 1..Len(query) :
            toLowerCaseChar(text[off + j]) = toLowerCaseChar(query[j])

\* this step starts a method invocation in task slot t
CalledIn(t) == calls' = calls + 1 /\ tasks'[t].id = calls'

RateStatusUnchanged ==
    /\ rateLimitRemaining' = rateLimitRemaining
    /\ rateLimitReset' = rateLimitReset

\* C1: searchFAQs with an empty or whitespace-only query returns the empty
\* sequence at once, issues no request and leaves the cache and the rate
\* status as they were, whatever state the client is in.
C1_BlankQueryReturnsNothing ==
    [][\A t \in Tasks :
        (CalledIn(t) /\ tasks'[t].op = "searchFAQs" /\ Blank(tasks'[t].arg))
        => /\ tasks'[t].pc = "resolved"
           /\ tasks'[t].returned = <<>>
           /\ fetchCount' = fetchCount
           /\ cache' = cache
           /\ RateStatusUnchanged]_vars

\* a whitespace-only search has returned in a client that holds cached
\* data and has seen a response
C1_Witness ==
    \E t \in Tasks :
        /\ tasks[t].op = "searchFAQs"
        /\ tasks[t].arg # <<>>
        /\ Blank(tasks[t].arg)
        /\ tasks[t].pc = "resolved"
        /\ DOMAIN cache # {}
        /\ rateLimitRemaining # Num(InitialRateLimitRemaining)

\* the FAQs of a search whose content fetch failed
failedIndexes(tk) == {tk.logged[k].index : k \in 1..Len(tk.logged)}

\* what the FAQs from position i on contribute when the FAQs in failed are
\* left out, in list order
RECURSIVE contributions(_, _, _, _)
contributions(w, tk, failed, i) ==
    IF i > Len(tk.faqs) THEN <<>>
    ELSE (IF i \in failed THEN <<>>
          ELSE faqResults(tk.arg, tk.faqs[i],
                          w.content[tk.faqs[i].faq_number], 1))
         \o contributions(w, tk, failed, i + 1)

\* C2: once searchFAQs has the FAQ list, a failing getFAQContent call never
\* rejects the search: every FAQ of the list is visited, each failure is
\* logged once, and the search returns what the other FAQs contribute.
C2_FailedFaqsAreSkipped ==
    \A t \in Tasks :
        LET tk == tasks[t] IN
        (tk.op = "searchFAQs" /\ ~Blank(tk.arg) /\ tk.i >= 1)
        => /\ tk.pc # "rejected"
           /\ tk.pc = "resolved"
              => /\ tk.i = Len(tk.faqs) + 1
                 /\ Cardinality(failedIndexes(tk)) = Len(tk.logged)
                 /\ tk.returned =
                      sliceTop(sortByRelevance(
                          contributions(world, tk, failedIndexes(tk), 1)),
                          TopResults)

\* a search over three FAQs returned results although the fetches of two
\* of them failed, with different errors
C2_Witness ==
    \E t \in Tasks :
        /\ tasks[t].op = "searchFAQs"
        /\ tasks[t].pc = "resolved"
        /\ Len(tasks[t].faqs) = 3
        /\ Len(tasks[t].logged) = 2
        /\ tasks[t].logged[1].error # tasks[t].logged[2].error
        /\ tasks[t].returned # <<>>

\* number of results in seq whose relevance is at least v
atLeast(seq, v) ==
    Cardinality({k \in 1..Len(seq) : RelLeq(v, seq[k].relevance)})
occurrences(seq, x) == Cardinality({k \in 1..Len(seq) : seq[k] = x})
least(a, b) == IF a < b THEN a ELSE b

\* C3: searchFAQs returns at most 10 results, in non-increasing order of
\* relevance, and they are the 10 best of the collected candidates: no
\* candidate left out is more relevant than a returned one.
C3_TopTenByRelevance ==
    \A t \in Tasks :
        LET tk == tasks[t] IN
        (tk.op = "searchFAQs" /\ tk.pc = "resolved")
        => /\ Len(tk.returned) <= 10
           /\ \A k \in 1..(Len(tk.returned) - 1) :
                 RelLeq(tk.returned[k + 1].relevance, tk.returned[k].relevance)
           /\ \A k \in 1..Len(tk.returned) :
                 occurrences(tk.returned, tk.returned[k])
                     <= occurrences(tk.results, tk.returned[k])
           /\ \A j \in 1..Len(tk.results) :
                 atLeast(tk.returned, tk.results[j].relevance)
                     = least(10, atLeast(tk.results, tk.results[j].relevance))

\* a search collected more than 10 candidates, not in order of relevance,
\* and returned 10 of them
C3_Witness ==
    \E t \in Tasks :
        /\ tasks[t].op = "searchFAQs"
        /\ tasks[t].pc = "resolved"
        /\ Len(tasks[t].results) > 10
        /\ Len(tasks[t].returned) = 10
        /\ \E j \in 1..Len(tasks[t].results) :
              \E k \in (j + 1)..Len(tasks[t].results) :
                 RelLess(tasks[t].results[j].relevance,
                         tasks[t].results[k].relevance)


ReadOps == {"listFAQs", "listFAQsAndQuestions", "getFAQContent"}

\* the cache key of a read operation: listfaqs, listfaqsandquestions or
\* faq_<id>
keyOfRead(tk) ==
    IF tk.op = "listFAQs" THEN <<"l","i","s","t","f","a","q","s">>
    ELSE IF tk.op = "listFAQsAndQuestions"
    THEN <<"l","i","s","t","f","a","q","s","a","n","d",
           "q","u","e","s","t","i","o","n","s">>
    ELSE <<"f","a","q","_">> \o tk.arg

\* C4: a read operation called while the entry of its key is younger than
\* the cache lifetime returns the stored value itself, without a request
\* and without touching the rate status or the cache; called when the
\* entry is as old as the lifetime or older, it issues a request again.
C4_FreshHitStaleRefetch ==
    [][\A t \in Tasks :
        (/\ CalledIn(t)
         /\ tasks'[t].op \in ReadOps
         /\ tasks'[t].op = "getFAQContent" => tasks'[t].arg # <<>>
         /\ keyOfRead(tasks'[t]) \in DOMAIN cache)
        => LET k   == keyOfRead(tasks'[t])
               age == now - cache[k].timestamp
           IN  /\ age < cacheTimeout
                  => /\ tasks'[t].pc = "resolved"
                     /\ tasks'[t].value = cache[k].data
                     /\ fetchCount' = fetchCount
                     /\ cache' = cache
                     /\ RateStatusUnchanged
               /\ age >= cacheTimeout
                  => /\ tasks'[t].pc = "fetching"
                     /\ tasks'[t].req = fetchCount + 1
                     /\ fetchCount' = fetchCount + 1]_vars

\* a read operation was served from an entry stored by an earlier call,
\* one time unit before the entry expires
C4_Witness ==
    \E t \in Tasks :
        /\ tasks[t].op \in ReadOps
        /\ tasks[t].pc = "resolved"
        /\ tasks[t].req = 0
        /\ keyOfRead(tasks[t]) \in DOMAIN cache
        /\ tasks[t].value = cache[keyOfRead(tasks[t])].data
        /\ tasks[t].value.req < fetchCount
        /\ now - cache[keyOfRead(tasks[t])].timestamp = cacheTimeout - 1

\* the FAQs of the list that a search has scanned with their content
scanned(tk) ==
    {i \in 1..Len(tk.faqs) :
        /\ i \notin failedIndexes(tk)
        /\ i < tk.i \/ tk.pc = "resolved"}

\* the collected results that carry FAQ number n and question text q
resultsOf(tk, n, q) ==
    {j \in 1..Len(tk.results) :
        tk.results[j].faq_number = n /\ tk.results[j].question = q}

\* the questions of the data set that have the query in their text or in
\* the text of one of their answers, for the FAQs of the list
matchingQuestions(w, faqs, query) ==
    {p \in UNION {{<<i, k>> : k \in 1..Len(w.content[faqs[i].faq_number])} :
                    i \in {i \in 1..Len(faqs) :
                               faqs[i].faq_number \in DOMAIN w.content}} :
        LET q == w.content[faqs[p[1]].faq_number][p[2]]
        IN  \/ ContainsIgnoringCase(q.question_text, query)
            \/ \E a \in 1..Len(q.answers) :
                  ContainsIgnoringCase(q.answers[a].answer_text, query)}

\* C5: a question whose text contains the query (letter case ignored)
\* gives one result for each of its answers, also for answers that do not
\* contain the query; when exactly one question of the data set matches
\* and it has two answers, the search returns exactly two results, both
\* with that question's text.
C5_QuestionMatchEmitsEveryAnswer ==
    \A t \in Tasks :
        LET tk == tasks[t] IN
        (tk.op = "searchFAQs" /\ ~Blank(tk.arg))
        => /\ \A i \in scanned(tk) :
                LET qs == world.content[tk.faqs[i].faq_number] IN
                \A k \in 1..Len(qs) :
                    ContainsIgnoringCase(qs[k].question_text, tk.arg)
                    => /\ Cardinality(resultsOf(tk, tk.faqs[i].faq_number,
                                                qs[k].question_text))
                            = Len(qs[k].answers)
                       /\ \A a \in 1..Len(qs[k].answers) :
                             \E j \in resultsOf(tk, tk.faqs[i].faq_number,
                                                qs[k].question_text) :
                                tk.results[j].answer = qs[k].answers[a].answer_text
           /\ \A p \in matchingQuestions(world, tk.faqs, tk.arg) :
                LET q == world.content[tk.faqs[p[1]].faq_number][p[2]] IN
                (/\ tk.pc = "resolved"
                 /\ matchingQuestions(world, tk.faqs, tk.arg) = {p}
                 /\ p[1] \in scanned(tk)
                 /\ ContainsIgnoringCase(q.question_text, tk.arg)
                 /\ Len(q.answers) = 2)
                => /\ Len(tk.returned) = 2
                   /\ \A j \in 1..2 : tk.returned[j].question = q.question_text

\* a search returned two results for the only matching question, whose
\* two answers do not contain the query
C5_Witness ==
    \E t \in Tasks :
        /\ tasks[t].op = "searchFAQs"
        /\ tasks[t].pc = "resolved"
        /\ Len(tasks[t].returned) = 2
        /\ Cardinality(matchingQuestions(world, tasks[t].faqs, tasks[t].arg)) = 1
        /\ \A j \in 1..2 :
              /\ ContainsIgnoringCase(tasks[t].returned[j].question, tasks[t].arg)
              /\ ~ContainsIgnoringCase(tasks[t].returned[j].answer, tasks[t].arg)


\* the positions where a word of the text starts: a character that is not
\* whitespace, at the start of the text or after whitespace
wordStarts(text) ==
    {i \in 1..Len(text) :
        ~IsSpace(text[i]) /\ (i = 1 \/ IsSpace(text[i - 1]))}

\* the word of the text that starts at position i
wordAt(text, i) ==
    LET ends == {e \in i..Len(text) :
                    /\ \A j \in i..e : ~IsSpace(text[j])
                    /\ e = Len(text) \/ IsSpace(text[e + 1])}
    IN  SubSeq(text, i, CHOOSE e \in ends : TRUE)

\* the number of words of the query that occur, letter case ignored, in
\* at least one word of the text
wordsFoundIn(query, text) ==
    Cardinality({i \in wordStarts(query) :
        \E j \in wordStarts(text) :
            ContainsIgnoringCase(wordAt(text, j), wordAt(query, i))})

\* C6: for a query of n whitespace-separated words the relevance is
\* 0.7 * (qMatches / n) + 0.3 * (aMatches / n), with qMatches (aMatches)
\* the number of query words found in a word of the question (answer);
\* 'password reset' against the example question and answer scores 1.
C6_RelevanceIsWeightedWordShare ==
    LET n == Cardinality(wordStarts(rel.query)) IN
    (rel.called /\ n >= 1)
    => /\ rel.result.num * (10 * n)
            = (7 * wordsFoundIn(rel.query, rel.questionText)
               + 3 * wordsFoundIn(rel.query, rel.answerText)) * rel.result.den
       /\ rel.query = examplePasswordQuery
          => rel.result.num = rel.result.den

\* the empty words that split(/\s+/) leaves at the ends of a query that
\* starts or ends with whitespace
emptyEndWords(query) ==
    (IF IsSpace(query[1]) THEN 1 ELSE 0)
    + (IF IsSpace(query[Len(query)]) THEN 1 ELSE 0)

\* C6 (amended): for a non-blank query the relevance is
\* 0.7 * (qMatches / n) + 0.3 * (aMatches / n), where n, qMatches and
\* aMatches also count one empty word for whitespace at the start of the
\* query and one for whitespace at its end (an empty word is found in every
\* text); 'password reset' against the example question and answer scores
\* 0.85, because the answer does not contain 'reset'.
C6_RelevanceCountsEmptyEndWords ==
    (rel.called /\ ~Blank(rel.query))
    => LET e == emptyEndWords(rel.query)
           n == Cardinality(wordStarts(rel.query)) + e
       IN  /\ rel.result.num * (10 * n)
                = (7 * (wordsFoundIn(rel.query, rel.questionText) + e)
                   + 3 * (wordsFoundIn(rel.query, rel.answerText) + e))
                  * rel.result.den
           /\ rel.query = examplePasswordQuery
              => rel.result.num * 20 = 17 * rel.result.den

\* the example was scored: both words are in the question, one of the two
\* is in the answer
C6_Witness ==
    /\ rel.called
    /\ rel.query = examplePasswordQuery
    /\ rel.questionText = examplePasswordQuestion
    /\ rel.answerText = examplePasswordAnswer
    /\ wordsFoundIn(rel.query, rel.questionText) = 2
    /\ wordsFoundIn(rel.query, rel.answerText) = 1

\* C7: for a non-blank query and non-empty texts the relevance lies in
\* [0, 1]; a candidate with a query words in the question and b in the
\* answer, a > b, scores strictly higher than a candidate under the same
\* query with b words in the question and a in the answer.
\* the one-character texts of the compared candidate
OtherTexts == {<<c>> : c \in RelAlphabet}

C7_RelevanceRangeAndQuestionWeight ==
    (rel.called /\ ~Blank(rel.query)
     /\ rel.questionText # <<>> /\ rel.answerText # <<>>)
    => /\ 0 <= rel.result.num
       /\ rel.result.num <= rel.result.den
       /\ LET a == wordsFoundIn(rel.query, rel.questionText)
              b == wordsFoundIn(rel.query, rel.answerText)
              others == {<<rel.answerText, rel.questionText>>}
                        \cup (OtherTexts \X OtherTexts)
          IN  a > b
              => \A o \in others :
                    (/\ o[1] # <<>> /\ o[2] # <<>>
                     /\ wordsFoundIn(rel.query, o[1]) = b
                     /\ wordsFoundIn(rel.query, o[2]) = a)
                    => RelLess(calculateRelevance(rel.query, o[1], o[2]),
                               rel.result)

\* a two-word query was scored against a question with both words and an
\* answer with one of them
C7_Witness ==
    /\ rel.called
    /\ Cardinality(wordStarts(rel.query)) = 2
    /\ wordsFoundIn(rel.query, rel.questionText) = 2
    /\ wordsFoundIn(rel.query, rel.answerText) = 1
    /\ rel.result.num < rel.result.den

\* a constructor call has been made
constructorCalled == constructed \/ thrown # NoError

\* the key is not empty and starts with "fs."
hasKeyPrefix(key) ==
    Len(key) >= 3 /\ key[1] = "f" /\ key[2] = "s" /\ key[3] = "."

\* C8: the constructor succeeds only for a non-empty key that starts with
\* "fs."; for any other key it throws 'Invalid API key format. API key
\* must start with "fs."', no instance exists and no request was issued.
C8_KeyPrefixRequired ==
    /\ constructed => hasKeyPrefix(apiKey)
    /\ (constructorCalled /\ ~hasKeyPrefix(apiKey))
       => /\ ~constructed
          /\ thrown.message
               = "Invalid API key format. API key must start with \"fs.\""
          /\ fetchCount = 0
          /\ calls = 0

\* the constructor threw for a key that holds "fs." but not at its start
C8_Witness ==
    /\ ~constructed
    /\ thrown.message = InvalidKeyMessage
    /\ apiKey = <<"x","f","s",".">>

\* C9: getFAQContent with an empty identifier rejects with 'FAQ number is
\* required'; the cache and the rate status stay as they are and no
\* request is issued.
C9_EmptyIdentifierRejected ==
    [][\A t \in Tasks :
        (CalledIn(t) /\ tasks'[t].op = "getFAQContent" /\ tasks'[t].arg = <<>>)
        => /\ tasks'[t].pc = "rejected"
           /\ tasks'[t].error.message = "FAQ number is required"
           /\ fetchCount' = fetchCount
           /\ cache' = cache
           /\ RateStatusUnchanged]_vars

\* getFAQContent('') was rejected in a client that holds cached data
C9_Witness ==
    \E t \in Tasks :
        /\ tasks[t].op = "getFAQContent"
        /\ tasks[t].arg = <<>>
        /\ tasks[t].pc = "rejected"
        /\ DOMAIN cache # {}

\* C10: the constructor called with the placeholder key
\* 'fs.your.api.key.here' throws 'Please replace the placeholder API key
\* with your actual FAQsimple API key', although the key starts with "fs.".
C10_PlaceholderKeyRejected ==
    (constructorCalled /\ apiKey = placeholderKey)
    => /\ ~constructed
       /\ thrown.message = PlaceholderMessage

(***************************************************************************)
(* The transport's errors                                                  *)
(***************************************************************************)

\* the invocation has settled
settled(tk) == tk.pc \in {"resolved", "rejected"}

\* a read operation called directly, not by healthCheck or a tool
direct(tk) == tk.caller = "" /\ tk.op \in ReadOps

\* the fetch awaited in slot t settles in this step
FetchSettledIn(t) == tasks[t].pc = "fetching" /\ tasks'[t] # tasks[t]

\* an HTTP response was received, with a status outside 2xx other than 429
otherStatus(resp) ==
    /\ ~resp.rejects /\ resp # NoResponse
    /\ ~responseOk(resp) /\ resp.status # 429

\* C11: healthCheck performs one list-summaries call and never throws; it
\* resolves with 'ok' when the call succeeds, 'connection_error' when the
\* call fails with a NetworkError, 'auth_error' when it fails with HTTP 401
\* or 403, and otherwise an unclassified status carrying the raw error.
C11_HealthCheckClassifies ==
    \A t \in Tasks :
        LET tk == tasks[t]
        IN  (tk.caller = "healthCheck" /\ tk.pc # "fetching")
            => /\ tk.pc = "resolved"
               /\ tk.op = "listFAQs"
               /\ tk.error = NoError => tk.health.status = "ok"
               /\ tk.error.message = NetworkErrorMessage
                      => tk.health.status = ConnectionErrorStatus
               /\ (~tk.resp.rejects /\ tk.resp.status \in {401, 403})
                      => tk.health.status = AuthErrorStatus
               /\ (/\ tk.error # NoError
                   /\ tk.error.message # NetworkErrorMessage
                   /\ ~(~tk.resp.rejects /\ tk.resp.status \in {401, 403}))
                      => tk.health = Health("error", tk.error)

\* C12: a response with a status outside 2xx other than 429 makes the read
\* operation fail with 'API Error <status>: <message>' carrying the status
\* and the body's message, or the status text when the body has no
\* decodable message; never with the network error or the rate limit error.
C12_OtherStatusIsApiError ==
    \A t \in Tasks :
        LET tk == tasks[t]
        IN  (direct(tk) /\ settled(tk) /\ otherStatus(tk.resp))
            => /\ tk.pc = "rejected"
               /\ tk.error.message = ApiErrorMessage
               /\ tk.error.status = tk.resp.status
               /\ tk.error.detail = IF tk.resp.jsonOk /\ tk.resp.message # <<>>
                                     THEN tk.resp.message
                                     ELSE tk.resp.statusText

\* C13: a fetch that rejects, whatever its error, makes the read operation
\* fail with 'Network error: Unable to connect to FAQsimple API', and only
\* a fetch that rejects does.
C13_RejectedFetchIsNetworkError ==
    \A t \in Tasks :
        LET tk == tasks[t]
        IN  (direct(tk) /\ settled(tk))
            => /\ tk.resp.rejects
                    => tk.pc = "rejected" /\ tk.error = NetworkError
               /\ tk.error.message = NetworkErrorMessage => tk.resp.rejects

\* the reset header is present and numeric
numericHeader(h) == h.present /\ parseInt(h.text) # NaN

\* C14: a 429 response makes the read operation fail with 'Rate limit
\* exceeded. Reset at: ...' whose time is the x-ratelimit-reset header
\* when it is present and numeric and the current time otherwise; nothing
\* is stored in the cache.
C14_TooManyRequestsIsRateLimited ==
    [][\A t \in Tasks :
         (FetchSettledIn(t) /\ direct(tasks[t])
          /\ ~tasks'[t].resp.rejects /\ tasks'[t].resp.status = 429)
         => /\ tasks'[t].pc = "rejected"
            /\ tasks'[t].error.message = RateLimitMessage
            /\ tasks'[t].error.status = 429
            /\ tasks'[t].error.at =
                  IF numericHeader(tasks'[t].resp.reset)
                  THEN dateOfSeconds(parseInt(tasks'[t].resp.reset.text)).v
                  ELSE now
            /\ cache' = cache]_vars

(***************************************************************************)
(* The rate limit status                                                   *)
(***************************************************************************)

\* C15: a fetch that settles with a response, whatever its status, sets the
\* rate limit fields from the response's x-ratelimit-remaining and
\* x-ratelimit-reset headers, and getRateLimitStatus returns the fields as
\* they are; a fetch that rejects leaves them unchanged.
C15_RateStatusFollowsEveryResponse ==
    [][/\ \A t \in Tasks :
            FetchSettledIn(t)
            => IF tasks'[t].resp.rejects
               THEN RateStatusUnchanged
               ELSE /\ rateLimitRemaining' =
                          parseInt(headerOrZero(tasks'[t].resp.remaining))
                    /\ rateLimitReset' =
                          parseInt(headerOrZero(tasks'[t].resp.reset))
       /\ snapshot' # snapshot
            => snapshot'.value.remaining = rateLimitRemaining]_vars

\* a 429 response was received and getRateLimitStatus, called after it,
\* returned its remaining quota
C15_Witness ==
    \E t \in Tasks :
        /\ tasks[t].pc = "rejected"
        /\ tasks[t].resp = tooMany429
        /\ rateLimitRemaining = Num(0)
        /\ rateLimitReset = Num(7)
        /\ snapshot.id > tasks[t].id
        /\ snapshot.value.remaining = Num(0)

\* C16: the remaining quota is a non-negative integer in every state, and a
\* response whose x-ratelimit-remaining or x-ratelimit-reset header is
\* missing or not numeric stores 0 in the field.
C16_RateStatusIsNonNegative ==
    [][/\ rateLimitRemaining'.t = "number"
       /\ rateLimitRemaining'.v >= 0
       /\ \A t \in Tasks :
            (FetchSettledIn(t) /\ ~tasks'[t].resp.rejects)
            => /\ ~numericHeader(tasks'[t].resp.remaining)
                    => rateLimitRemaining' = Num(0)
               /\ ~numericHeader(tasks'[t].resp.reset)
                    => rateLimitReset' = Num(0)]_vars

\* getRateLimitStatus is called in this step
RateStatusCalled == calls' = calls + 1 /\ snapshot'.id = calls'

\* C17: the rate limit fields start as 100 and null and change only when a
\* response is received, so that getRateLimitStatus returns remaining 100
\* and resetTime null until then; a getRateLimitStatus call issues no
\* request and changes neither the rate limit fields nor the cache.
C17_RateStatusAccessorIsPure ==
    /\ rateLimitRemaining = Num(100) /\ rateLimitReset = Null
    /\ [][/\ ~RateStatusUnchanged
               => \E t \in Tasks : /\ FetchSettledIn(t)
                                   /\ ~tasks'[t].resp.rejects
          /\ RateStatusCalled
               => /\ (rateLimitRemaining = Num(100) /\ rateLimitReset = Null)
                       => snapshot'.value = [remaining |-> Num(100),
                                             resetTime |-> Null]
                  /\ RateStatusUnchanged
                  /\ UNCHANGED <<cache, fetchCount, tasks>>]_vars

\* getRateLimitStatus returned 100 and null after a request that got no
\* response
C17_Witness ==
    \E t \in Tasks :
        /\ tasks[t].pc = "rejected"
        /\ tasks[t].resp.rejects
        /\ snapshot.id > tasks[t].id
        /\ snapshot.value = [remaining |-> Num(100), resetTime |-> Null]

C19_ToolReturnsUpToLimit ==
    \A t \in Tasks :
        LET tk == tasks[t]
            L == IF tk.limit = Undefined THEN 10 ELSE tk.limit.v
            M == Len(contributions(world, tk, {}, 1))
        IN  (tk.caller = "search_faqs" /\ tk.pc = "resolved"
             /\ tk.logged = <<>>)
            => Len(tk.content) = least(L, M)

(***************************************************************************)
(* The cache keys                                                          *)
(***************************************************************************)

\* the endpoint and the parameter a read operation asks for
endpointOf(tk) ==
    IF tk.op = "listFAQs" THEN "listfaqs"
    ELSE IF tk.op = "listFAQsAndQuestions" THEN "listfaqsandquestions"
    ELSE "getfaqplusqa"

\* C20: the keys of listFAQs and listFAQsAndQuestions differ from each
\* other and from the key of every identifier, and different identifiers
\* have different keys; a read operation never returns, and the cache
\* never holds under its key, the document of another operation or of
\* another identifier.
C20_CacheKeysAreDisjoint ==
    /\ listfaqsKey # listfaqsandquestionsKey
    /\ \A n \in TransportFaqNumbers :
          /\ faqKey(n) \notin {listfaqsKey, listfaqsandquestionsKey}
          /\ \A m \in TransportFaqNumbers : faqKey(n) = faqKey(m) => n = m
    /\ \A t \in Tasks :
          (direct(tasks[t]) /\ tasks[t].pc = "resolved")
          => /\ tasks[t].value.endpoint = endpointOf(tasks[t])
             /\ tasks[t].value.param = tasks[t].arg
    /\ \A k \in DOMAIN cache :
          \/ k = listfaqsKey /\ cache[k].data.endpoint = "listfaqs"
          \/ /\ k = listfaqsandquestionsKey
             /\ cache[k].data.endpoint = "listfaqsandquestions"
          \/ /\ cache[k].data.endpoint = "getfaqplusqa"
             /\ k = faqPrefix \o cache[k].data.param

\* with the list of summaries in the cache, the content of the FAQ
\* numbered "listfaqs" was fetched, stored, and then returned from the cache
C20_Witness ==
    \E t \in Tasks :
        /\ tasks[t].op = "getFAQContent"
        /\ tasks[t].arg = listfaqsNumber
        /\ tasks[t].pc = "resolved"
        /\ tasks[t].resp = NoResponse
        /\ tasks[t].value.endpoint = "getfaqplusqa"
        /\ listfaqsKey \in DOMAIN cache
        /\ faqKey(listfaqsNumber) \in DOMAIN cache
(***************************************************************************)
(* The tool handler                                                        *)
(***************************************************************************)

\* the kinds of error of the client
isNetworkError(e) == e.message = NetworkErrorMessage
isApiError(e) == e.message = ApiErrorMessage
isMcpError(e) == e.message \in {QueryRequiredMessage, FaqNumberParamMessage}

\* a tool call failed with an error of the client
coreErrorReported(tk) ==
    /\ tk.caller \in {"search_faqs", "get_faq_content", "list_faqs"}
    /\ tk.pc = "rejected"
    /\ ~isMcpError(tk.error)

\* C21: for every error of the client raised during a tool call, the tool
\* reports the connection guidance exactly when the error is a network
\* error, the invalid-key guidance exactly when it is an API error with
\* status 401 or 403, and "Tool execution failed: <message>" otherwise.
C21_ToolErrorFollowsKind ==
    \A t \in Tasks :
        LET tk == tasks[t]
            e  == tk.error
        IN  coreErrorReported(tk)
            => /\ tk.reported.message = UnableToConnectMessage
                    <=> isNetworkError(e)
               /\ tk.reported.message = InvalidKeyToolMessage
                    <=> (isApiError(e) /\ e.status \in {401, 403})
               /\ (~isNetworkError(e)
                   /\ ~(isApiError(e) /\ e.status \in {401, 403}))
                    => tk.reported = Error(ToolFailedMessage, e.status,
                                           e.detail, e.at)

(***************************************************************************)
(* searchFAQs: the scan                                                    *)
(***************************************************************************)

\* the collected results that carry FAQ number n, question text q and
\* answer text x
resultsWith(tk, n, q, x) ==
    {j \in resultsOf(tk, n, q) : tk.results[j].answer = x}

\* the answers of question qn that carry the text x and are collected for
\* the query: all of them when the question text contains the query,
\* otherwise those that contain it
collectedAnswers(qn, x, query) ==
    {a \in 1..Len(qn.answers) :
        /\ qn.answers[a].answer_text = x
        /\ \/ ContainsIgnoringCase(qn.question_text, query)
           \/ ContainsIgnoringCase(x, query)}

\* C22: for a question whose text does not contain the query, a result is
\* collected for exactly the answers whose text contains the query (letter
\* case ignored); every (FAQ, question, answer) triple gives at most one
\* result, every result comes from a triple of a scanned FAQ, and a FAQ
\* without questions gives none.
C22_AnswerMatchCollectsMatchingAnswers ==
    \A t \in Tasks :
        LET tk == tasks[t] IN
        (tk.op = "searchFAQs" /\ ~Blank(tk.arg))
        => /\ \A i \in scanned(tk) :
                LET n  == tk.faqs[i].faq_number
                    qs == world.content[n]
                IN  /\ \A k \in 1..Len(qs) : \A a \in 1..Len(qs[k].answers) :
                          LET x == qs[k].answers[a].answer_text IN
                          /\ Cardinality(resultsWith(tk, n, qs[k].question_text, x))
                               = Cardinality(collectedAnswers(qs[k], x, tk.arg))
                          /\ ~ContainsIgnoringCase(qs[k].question_text, tk.arg)
                               => Cardinality(resultsWith(tk, n,
                                                 qs[k].question_text, x))
                                    = IF ContainsIgnoringCase(x, tk.arg)
                                      THEN 1 ELSE 0
                    /\ qs = <<>>
                          => \A j \in 1..Len(tk.results) :
                                 tk.results[j].faq_number # n
           /\ \A j \in 1..Len(tk.results) :
                 \E i \in scanned(tk) :
                    LET qs == world.content[tk.faqs[i].faq_number] IN
                    /\ tk.results[j].faq_number = tk.faqs[i].faq_number
                    /\ \E k \in 1..Len(qs) :
                          /\ tk.results[j].question = qs[k].question_text
                          /\ collectedAnswers(qs[k], tk.results[j].answer,
                                              tk.arg) # {}

\* a search collected, for a question that does not contain the query,
\* the two answers that contain it and not the third
C22_Witness ==
    \E t \in Tasks :
        LET tk == tasks[t] IN
        /\ tk.op = "searchFAQs"
        /\ tk.pc = "resolved"
        /\ tk.arg = <<"a"," ","b">>
        /\ resultsWith(tk, <<"1">>, <<"c">>, <<"a"," ","b">>) # {}
        /\ resultsWith(tk, <<"1">>, <<"c">>, <<"x","A"," ","b">>) # {}
        /\ resultsWith(tk, <<"1">>, <<"c">>, <<"b">>) = {}
        /\ Cardinality(resultsOf(tk, <<"1">>, <<"c">>)) = 2

\* the (FAQ, question, answer) positions of the data set, for the FAQs of
\* the list
triples(w, faqs) ==
    {p \in (1..Len(faqs)) \X (1..3) \X (1..3) :
        /\ faqs[p[1]].faq_number \in DOMAIN w.content
        /\ p[2] <= Len(w.content[faqs[p[1]].faq_number])
        /\ p[3] <= Len(w.content[faqs[p[1]].faq_number][p[2]].answers)}

\* the position a result was collected from (the data sets searched hold
\* no two positions with the same three texts)
tripleOf(w, faqs, r) ==
    CHOOSE p \in triples(w, faqs) :
        LET qn == w.content[faqs[p[1]].faq_number][p[2]] IN
        /\ r.faq_number = faqs[p[1]].faq_number
        /\ r.question = qn.question_text
        /\ r.answer = qn.answers[p[3]].answer_text

\* scan order: FAQ first, then question, then answer
scannedBefore(p, q) ==
    \/ p[1] < q[1]
    \/ p[1] = q[1] /\ p[2] < q[2]
    \/ p[1] = q[1] /\ p[2] = q[2] /\ p[3] < q[3]

\* the place of results[j] in the ranking: after every result that is
\* more relevant and after the earlier results of the same relevance
stableRank(results, j) ==
    1 + Cardinality({k \in 1..Len(results) :
                        RelLess(results[j].relevance, results[k].relevance)})
      + Cardinality({k \in 1..(j - 1) :
                        RelEq(results[j].relevance, results[k].relevance)})

\* C23: results are collected in scan order (FAQ list order, then question
\* order, then answer order); searchFAQs returns them by decreasing
\* relevance with results of equal relevance in that order, and cuts the
\* ranking to 10 after ordering it.
C23_TiesKeepScanOrder ==
    \A t \in Tasks :
        LET tk == tasks[t] IN
        (tk.op = "searchFAQs" /\ ~Blank(tk.arg))
        => /\ \A j, k \in 1..Len(tk.results) :
                 j < k => scannedBefore(tripleOf(world, tk.faqs, tk.results[j]),
                                        tripleOf(world, tk.faqs, tk.results[k]))
           /\ tk.pc = "resolved"
                => /\ Len(tk.returned) = least(TopResults, Len(tk.results))
                   /\ \A j \in 1..Len(tk.results) :
                         stableRank(tk.results, j) <= TopResults
                         => tk.returned[stableRank(tk.results, j)]
                               = tk.results[j]
                   /\ \A j, k \in 1..Len(tk.returned) :
                         (j < k /\ RelEq(tk.returned[j].relevance,
                                         tk.returned[k].relevance))
                         => scannedBefore(
                                tripleOf(world, tk.faqs, tk.returned[j]),
                                tripleOf(world, tk.faqs, tk.returned[k]))

\* of fifteen candidates, six of them with the lowest relevance, the ten
\* returned end with the first candidate scanned
C23_Witness ==
    \E t \in Tasks :
        LET tk == tasks[t] IN
        /\ tk.op = "searchFAQs"
        /\ tk.pc = "resolved"
        /\ Len(tk.results) = 15
        /\ Len(tk.returned) = 10
        /\ tk.returned[10] = tk.results[1]
        /\ Cardinality({k \in 1..15 : RelEq(tk.results[k].relevance,
                                             tk.results[1].relevance)}) = 6
        /\ \E k \in 1..9 : RelEq(tk.returned[k].relevance,
                                   tk.returned[k + 1].relevance)

\* the response does not let makeRequest return
failing(resp) == resp.rejects \/ ~responseOk(resp) \/ ~resp.jsonOk

\* C24: when the listFAQsAndQuestions call of searchFAQs fails, searchFAQs
\* rejects with the error of that call and issues no content request;
\* the failure of a content fetch never rejects the search.
C24_ListFailureRejectsSearch ==
    [][\A t \in Tasks :
         (FetchSettledIn(t) /\ tasks[t].op = "searchFAQs"
          /\ failing(tasks'[t].resp))
         => IF tasks[t].i = 0
            THEN /\ tasks'[t].pc = "rejected"
                 /\ tasks'[t].error # NoError
                 /\ tasks'[t].error =
                       makeRequest(tasks'[t].resp, NoBody, now,
                                   rateLimitRemaining, rateLimitReset).error
                 /\ fetchCount' = fetchCount
                 /\ tasks'[t].endpoint = "listfaqsandquestions"
                 /\ tasks'[t].faqs = <<>>
                 /\ tasks'[t].logged = <<>>
                 /\ tasks'[t].returned = <<>>
            ELSE /\ tasks'[t].pc # "rejected"
                 /\ Len(tasks'[t].logged) > Len(tasks[t].logged)
                 /\ tasks'[t].logged[Len(tasks[t].logged) + 1].error =
                       makeRequest(tasks'[t].resp, NoBody, now,
                                   rateLimitRemaining, rateLimitReset).error
                 /\ tasks'[t].error = NoError]_vars

\* a search was rejected with the error of the 401 response to its list
\* request, the only request it issued
C24_Witness ==
    \E t \in Tasks :
        /\ tasks[t].op = "searchFAQs"
        /\ tasks[t].pc = "rejected"
        /\ tasks[t].i = 0
        /\ tasks[t].resp = unauthorized401
        /\ tasks[t].error.message = ApiErrorMessage
        /\ tasks[t].error.status = 401
        /\ tasks[t].endpoint = "listfaqsandquestions"
        /\ tasks[t].req = fetchCount

\* the invocation in slot t issued a request in this step
RequestIssuedIn(t) ==
    /\ tasks'[t].pc = "fetching"
    /\ tasks'[t].req # tasks[t].req

\* C25: within one searchFAQs invocation the content requests are issued
\* in list order, one per step: the request for a FAQ is issued only when
\* the invocation has no request pending (it is called, or its pending
\* request settles in this step) and every earlier FAQ of the list has
\* either failed or has its content stored.
C25_ContentFetchesAreSequential ==
    [][\A t \in Tasks :
         LET old == tasks[t]
             new == tasks'[t]
         IN  new.op = "searchFAQs"
             => /\ fetchCount' <= fetchCount + 1
                /\ new.id = old.id => new.i >= old.i
                /\ RequestIssuedIn(t)
                     => /\ new.req = fetchCount'
                        /\ fetchCount' = fetchCount + 1
                        /\ CalledIn(t) \/ FetchSettledIn(t)
                        /\ new.i = 0 => new.endpoint = "listfaqsandquestions"
                        /\ new.i >= 1
                             => /\ new.i <= Len(new.faqs)
                                /\ new.endpoint = "getfaqplusqa"
                                /\ new.param = new.faqs[new.i].faq_number
                                /\ \A j \in 1..(new.i - 1) :
                                      \/ j \in failedIndexes(new)
                                      \/ faqKey(new.faqs[j].faq_number)
                                            \in DOMAIN cache']_vars

\* a search waits for the content of the third FAQ of its list after the
\* fetch of the first failed and the content of the second was stored
C25_Witness ==
    \E t \in Tasks :
        /\ tasks[t].op = "searchFAQs"
        /\ tasks[t].pc = "fetching"
        /\ tasks[t].i = 3
        /\ 1 \in failedIndexes(tasks[t])
        /\ tasks[t].faqs[2].faq_number # <<>>
        /\ faqKey(tasks[t].faqs[2].faq_number) \in DOMAIN cache
        /\ tasks[t].req = fetchCount

(***************************************************************************)
(* The cache                                                               *)
(***************************************************************************)

\* C26: a read operation called while its key is absent or stale issues
\* a request also when another invocation already waits for the same key;
\* each invocation stores the body of its own response when it arrives;
\* and a value a read operation returns is a body the service delivered
\* for the endpoint and parameter of its key.
C26_OverlappingMissesBothFetchAndStore ==
    [][\A t \in ConcurrentTasks :
         LET old == tasks[t]
             new == tasks'[t]
         IN  /\ (CalledIn(t) /\ direct(new) /\ new.pc # "rejected"
                 /\ ~cacheFresh(cache, keyOfRead(new), now))
                  => /\ new.pc = "fetching"
                     /\ fetchCount' = fetchCount + 1
                     /\ new.req = fetchCount'
             /\ (FetchSettledIn(t) /\ direct(old) /\ ~failing(new.resp))
                  => /\ new.pc = "resolved"
                     /\ new.value = serverBody(world, old.req, old.endpoint,
                                               old.param)
                     /\ cache'[old.key] = [data |-> new.value,
                                           timestamp |-> now]
             /\ (direct(new) /\ new.pc = "resolved")
                  => /\ new.value.endpoint = endpointOf(new)
                     /\ new.value.param = new.arg
                     /\ new.value.req \in 1..fetchCount'
                     /\ new.value = serverBody(world, new.value.req,
                                               endpointOf(new), new.arg)]_vars

\* two listFAQs calls made at the same time both fetched; the response to
\* the second request arrived first, and the cache holds the body of the
\* first request, stored last
C26_Witness ==
    \E t, u \in ConcurrentTasks :
        /\ tasks[t].op = "listFAQs" /\ tasks[u].op = "listFAQs"
        /\ tasks[t].pc = "resolved" /\ tasks[u].pc = "resolved"
        /\ tasks[t].resp = ok200 /\ tasks[u].resp = ok200
        /\ tasks[t].req = 1 /\ tasks[u].req = 2
        /\ tasks[t].value.req = 1 /\ tasks[u].value.req = 2
        /\ now = 0
        /\ cache[listfaqsKey].data = tasks[t].value

\* clearCache() was called in this step: the one call, among those of
\* Spec, that starts no invocation
ClearCalled == calls' = calls + 1 /\ \A t \in Tasks : ~CalledIn(t)

C28_RefreshOverwritesEntry ==
    [][\A t \in ConcurrentTasks :
         LET old == tasks[t]
             new == tasks'[t]
         IN  /\ (FetchSettledIn(t) /\ ~failing(new.resp))
                  => /\ DOMAIN cache' = DOMAIN cache \cup {old.key}
                     /\ cache'[old.key] =
                           [data |-> serverBody(world, old.req, old.endpoint,
                                                old.param),
                            timestamp |-> now]
                     /\ \A k \in DOMAIN cache \ {old.key} :
                           cache'[k] = cache[k]
                     /\ cacheFresh(cache', old.key, now)
                     /\ cacheSet(cache', old.key, cache'[old.key].data, now)
                           = cache'
             /\ (CalledIn(t) /\ direct(new)
                 /\ cacheFresh(cache, keyOfRead(new), now))
                  => /\ new.pc = "resolved"
                     /\ new.value = cache[keyOfRead(new)].data
                     /\ fetchCount' = fetchCount
                     /\ cache' = cache]_vars

\* two getFAQContent calls for the same FAQ both fetched; the body of the
\* second request was stored last, at time 1, over the entry that held
\* the body of the first
C28_Witness ==
    \E t, u \in ConcurrentTasks :
        /\ tasks[t].op = "getFAQContent" /\ tasks[u].op = "getFAQContent"
        /\ tasks[t].pc = "resolved" /\ tasks[u].pc = "resolved"
        /\ tasks[t].resp = ok200 /\ tasks[u].resp = ok200
        /\ tasks[t].value.req = 1 /\ tasks[u].value.req = 2
        /\ now = 1
        /\ cache[tasks[u].key] = [data |-> tasks[u].value, timestamp |-> 1]

\* C29: clearCache removes every entry and changes neither the rate limit
\* fields, the configuration nor an invocation, and issues no request; a
\* key enters the cache only when a request for it succeeds, so that after
\* a clearCache with no request pending the key of every read operation
\* is absent at its next call, and a call whose key is absent issues a
\* request.
C29_ClearCacheRemovesEverything ==
    [][/\ ClearCalled
            => /\ cache' = EmptyCache
               /\ UNCHANGED <<apiKey, cacheTimeout, rateLimitRemaining,
                              rateLimitReset, constructed, tasks,
                              fetchCount, now, snapshot>>
       /\ \A k \in DOMAIN cache' \ DOMAIN cache :
             \E t \in Tasks : /\ FetchSettledIn(t)
                              /\ tasks[t].key = k
                              /\ ~failing(tasks'[t].resp)
       /\ \A t \in Tasks :
             (CalledIn(t) /\ direct(tasks'[t]) /\ tasks'[t].pc # "rejected"
              /\ keyOfRead(tasks'[t]) \notin DOMAIN cache)
             => /\ RequestIssuedIn(t)
                /\ fetchCount' = fetchCount + 1
                /\ tasks'[t].key = keyOfRead(tasks'[t])]_vars

\* clearCache was the last call made, after a read operation had stored
\* the body of its response at the present time: the fresh entry is gone,
\* the rate limit fields are those of the response
C29_Witness ==
    \E t \in Tasks :
        /\ direct(tasks[t])
        /\ tasks[t].pc = "resolved"
        /\ tasks[t].resp = ok200
        /\ calls = tasks[t].id + 1
        /\ now = 0
        /\ cacheTimeout > 0
        /\ cache = EmptyCache
        /\ rateLimitRemaining = Num(50)

\* the quota last seen is used up and the reset time is in the future
quotaExhausted ==
    /\ rateLimitRemaining = Num(0)
    /\ rateLimitReset.t = "number"
    /\ rateLimitReset.v * MsPerSecond > now

Pending == \E t \in Tasks : tasks[t].pc = "fetching"

\* every request that was issued completes, with a response or a failure:
\* weak fairness of FetchSettles, written out. FetchSettles is enabled
\* exactly when an invocation waits for a request (the guard of
\* fetchSettles; a completion changes the invocation, which leaves the
\* wait or issues a request of a new number), so that the formula is
\* WF_vars(FetchSettles) with Pending for ENABLED <<FetchSettles>>_vars.
RequestsComplete == []<>~Pending \/ []<><<FetchSettles>>_vars

NextLive ==
    \/ CallListFAQs
    \/ CallListFAQsAndQuestions
    \/ CallGetFAQContent
    \/ CallSearchFAQs
    \/ FetchSettles
    \/ ConcurrentTick

\* the await of fetch in makeRequest is the only place an invocation waits,
\* so that the fairness assumed is that of the requests alone
SpecLive == InitTransport /\ [][NextLive]_vars /\ RequestsComplete

(***************************************************************************)
(* The client under the cache lifetimes that can be configured: none, 0    *)
(* and 1 ms.                                                               *)
(***************************************************************************)

\* the key of each configuration tells which lifetime was configured
zeroLifetimeKey == <<"f","s",".","0">>
oneLifetimeKey == <<"f","s",".","1">>

LifetimeConfigs ==
    {Config(testKey, Undefined),
     Config(zeroLifetimeKey, Num(0)),
     Config(oneLifetimeKey, Num(1))}

ConstructLifetime == \E config \in LifetimeConfigs : constructor(config)

NextLifetime ==
    \/ ConstructLifetime
    \/ CallListFAQs
    \/ CallGetFAQContent
    \/ FetchSettles
    \/ Tick

SpecLifetime == Init /\ [][NextLifetime]_vars

(***************************************************************************)
(* Termination                                                             *)
(***************************************************************************)

\* C31: when every request eventually completes, every invocation of a
\* read operation or of searchFAQs eventually resolves or rejects; and the
\* client has no timeout: an invocation that waits for a request changes
\* only in the step in which that request completes, by the response or
\* failure it completes with.
C31_EveryInvocationSettles ==
    /\ \A t \in Tasks : (tasks[t].pc = "fetching") ~> settled(tasks[t])
    /\ [][\A t \in Tasks :
             tasks[t].pc = "fetching"
             => \/ tasks'[t] = tasks[t]
                \/ /\ now' = now
                   /\ calls' = calls
                   /\ tasks'[t].id = tasks[t].id
                   /\ tasks'[t].resp # NoResponse
                   /\ tasks'[t].resp \in Responses]_vars

\* a search over the list of two FAQs resolved after its three requests
\* completed, the clock having advanced meanwhile
C31_Witness ==
    \E t \in Tasks :
        /\ tasks[t].op = "searchFAQs"
        /\ tasks[t].pc = "resolved"
        /\ tasks[t].id = 1
        /\ tasks[t].i = Len(tasks[t].faqs) + 1
        /\ tasks[t].req = 3
        /\ tasks[t].returned # <<>>
        /\ now = MaxConcurrentTime

(***************************************************************************)
(* Bounds of the relevance of the results of a search                      *)
(***************************************************************************)

\* C32: every result a search returns has relevance at least 0.3, and at
\* least 0.7 when the query is in its question text: when the whole query
\* is in a text, each of its whitespace-separated words is in some word of
\* that text.
C32_RelevanceLowerBounds ==
    \A t \in Tasks :
        LET tk == tasks[t]
            n  == Cardinality(wordStarts(tk.arg))
        IN
        (tk.op = "searchFAQs" /\ tk.pc = "resolved")
        => \A j \in 1..Len(tk.returned) :
              LET r == tk.returned[j] IN
              /\ RelLeq([num |-> 3, den |-> 10], r.relevance)
              /\ ContainsIgnoringCase(r.question, tk.arg)
                    => /\ RelLeq([num |-> 7, den |-> 10], r.relevance)
                       /\ wordsFoundIn(tk.arg, r.question) = n
              /\ ContainsIgnoringCase(r.answer, tk.arg)
                    => wordsFoundIn(tk.arg, r.answer) = n

\* a search for "a b" returned a result of relevance exactly 0.3, whose
\* answer "xA b" holds the query across two of its words, and a result of
\* relevance exactly 0.7
C32_Witness ==
    \E t \in Tasks :
        LET tk == tasks[t] IN
        /\ tk.op = "searchFAQs"
        /\ tk.pc = "resolved"
        /\ tk.arg = <<"a"," ","b">>
        /\ \E j \in 1..Len(tk.returned) :
              /\ tk.returned[j].answer = <<"x","A"," ","b">>
              /\ RelEq(tk.returned[j].relevance, [num |-> 3, den |-> 10])
        /\ \E j \in 1..Len(tk.returned) :
              /\ ContainsIgnoringCase(tk.returned[j].question, tk.arg)
              /\ RelEq(tk.returned[j].relevance, [num |-> 7, den |-> 10])

(***************************************************************************)
(* What a search returns, against the data set                             *)
(***************************************************************************)

\* the (FAQ, question, answer) positions of the FAQs whose content the
\* search obtained, with the query in the question text or in the answer
\* text, letter case ignored
candidates(tk) ==
    {p \in triples(world, tk.faqs) :
        LET qn == world.content[tk.faqs[p[1]].faq_number][p[2]] IN
        /\ p[1] \in scanned(tk)
        /\ \/ ContainsIgnoringCase(qn.question_text, tk.arg)
           \/ ContainsIgnoringCase(qn.answers[p[3]].answer_text, tk.arg)}

\* result r carries the number and name of the list entry and the
\* original texts of position p
resultOfTriple(tk, r, p) ==
    LET faq == tk.faqs[p[1]]
        qn  == world.content[faq.faq_number][p[2]]
    IN  /\ r.faq_number = faq.faq_number
        /\ r.faq_name = faq.name
        /\ r.question = qn.question_text
        /\ r.answer = qn.answers[p[3]].answer_text

\* C33: every result a search returns is that of a (list entry, question,
\* answer) triple of a FAQ whose content was obtained, with the query in
\* the question or the answer text (letter case ignored), and carries the
\* entry's number and name and the original texts; when there are at most
\* 10 such triples, every one of them is returned, once.
C33_ResultsAreTheCandidates ==
    \A t \in Tasks :
        LET tk == tasks[t] IN
        (tk.op = "searchFAQs" /\ tk.pc = "resolved")
        => /\ \A j \in 1..Len(tk.returned) :
                 \E p \in candidates(tk) :
                    resultOfTriple(tk, tk.returned[j], p)
           /\ Cardinality(candidates(tk)) <= TopResults
                 => /\ Len(tk.returned) = Cardinality(candidates(tk))
                    /\ \A p \in candidates(tk) :
                          \E j \in 1..Len(tk.returned) :
                             resultOfTriple(tk, tk.returned[j], p)

\* a search for "a b" over three FAQs of five candidates each, one of which
\* could not be fetched, returned the ten candidates of the other two, a
\* text with an upper-case letter among them
C33_Witness ==
    \E t \in Tasks :
        LET tk == tasks[t] IN
        /\ tk.op = "searchFAQs"
        /\ tk.pc = "resolved"
        /\ tk.arg = <<"a"," ","b">>
        /\ Len(tk.logged) = 1
        /\ Cardinality(candidates(tk)) = TopResults
        /\ Len(tk.returned) = TopResults
        /\ \E j \in 1..Len(tk.returned) :
              tk.returned[j].question = <<"a"," ","B">>

(***************************************************************************)
(* The requests of a search                                                *)
(***************************************************************************)

\* the content fetches of a search that failed (a list entry without a
\* number is rejected before any request)
fetchFailures(tk) ==
    {k \in 1..Len(tk.logged) :
        tk.logged[k].error.message # FaqNumberRequiredMessage}

fetchedItself(tk) ==
    /\ direct(tk)
    /\ tk.pc = "resolved"
    /\ tk.resp # NoResponse
    /\ ~failing(tk.resp)

\* C35: when two invocations have both fetched the same key successfully,
\* the cache holds the response to the request that was issued last: a
\* response to an earlier request never replaces that to a later one.
C35_LastIssuedRequestIsKept ==
    \A t, u \in ConcurrentTasks :
        (/\ t # u
         /\ fetchedItself(tasks[t]) /\ fetchedItself(tasks[u])
         /\ tasks[t].key = tasks[u].key
         /\ tasks[t].req < tasks[u].req)
        => cache[tasks[u].key].data.req >= tasks[u].req

\* C36: a response to a request that was issued before a clearCache call
\* is not stored after that clear. A read operation issues its request in
\* the step it is called in, as call number id; while it waits, the one
\* call that can follow (calls > id) is clearCache, since the invocation
\* holds the only slot of Tasks.
C36_NoStoreAfterClear ==
    [][\A t \in Tasks :
          /\ (tasks[t].pc = "fetching" /\ calls' # calls) => ClearCalled
          /\ (FetchSettledIn(t) /\ direct(tasks[t]) /\ calls > tasks[t].id)
                => tasks[t].key \notin DOMAIN cache']_vars

(***************************************************************************)
(* The cache lifetime                                                      *)
(***************************************************************************)

\* the lifetime that was given to the constructor with the key of the
\* client
configuredLifetime ==
    (CHOOSE config \in LifetimeConfigs : config.apiKey = apiKey).cacheTimeout

\* C37: the lifetime the staleness test applies is the configured one for
\* every configured value L >= 0, and 300000 ms when none is configured; a
\* client constructed with lifetime 0 never serves a read operation from
\* the cache.
C37_ConfiguredLifetimeApplies ==
    constructed
    => /\ cacheTimeout = IF configuredLifetime = Undefined
                         THEN 300000
                         ELSE configuredLifetime.v
       /\ configuredLifetime = Num(0)
            => \A t \in Tasks :
                  (direct(tasks[t]) /\ tasks[t].pc = "resolved")
                  => tasks[t].resp # NoResponse

(***************************************************************************)
(* Whitespace around the query                                             *)
(***************************************************************************)

\* what the search tk returns for the query q, from the contents it
\* obtained
returnedFor(tk, q) ==
    sliceTop(sortByRelevance(contributions(world, [tk EXCEPT !.arg = q],
                                           failedIndexes(tk), 1)),
             TopResults)

\* C38: a search does not depend on the whitespace around its query: for a
\* non-blank query it returns the results, in the order and with the
\* relevance, that the query without its leading and trailing whitespace
\* gives on the same contents.
C38_SurroundingWhitespaceIgnored ==
    \A t \in Tasks :
        LET tk == tasks[t] IN
        (tk.op = "searchFAQs" /\ tk.pc = "resolved" /\ ~Blank(tk.arg))
        => tk.returned = returnedFor(tk, trim(tk.arg))

====
